---- MODULE Spec2Model ----
(***************************************************************************)
(* A model of crawl-ref/source/newgame.cc: the resolution of a new         *)
(* character (species, background, starting weapon) from a request holding *)
(* concrete values, UNKNOWN and the RANDOM / VIABLE placeholders, and the   *)
(* menu loop that collects the missing choices.                            *)
(*                                                                         *)
(* The enumerations are scaled down: three starting species, one species   *)
(* that cannot be started with, three starting backgrounds and one         *)
(* removed background.  The compatibility tables of ng-restr.cc and the    *)
(* job tables of jobs.cc are not part of newgame.cc; a small table with    *)
(* the same interface stands for them.                                     *)
(***************************************************************************)
EXTENDS Integers, Sequences, FiniteSets, TLC

VARIABLES
    ng,          \* newgame_def& ng: what has been decided
    choice,      \* newgame_def& choice / ng_choice: what was asked for
    defaults,    \* newgame_def defaults: the previous game's choice
    ng_reset,    \* const newgame_def ng_reset of _choose_char
    request0,    \* the request when the loop of _choose_char was entered (history)
    prompted,    \* a menu was answered in the running iteration of the loop of
                 \* _choose_species_job (history)
    pc,          \* the position of the control flow
    site,        \* the line of the _resolve_species_job call being run
    order,       \* which field the running _resolve_species_job takes first
    last,        \* what the last resolution step did (history)
    exit_msg,    \* the message of end(1, ...), or NoMsg
    maps,        \* find_maps_for_tag(type_name): the names of the maps
    sprint_map,  \* crawl_state.sprint_map
    stream,      \* candidate stream of the stand-alone selection loop
    pos,         \* the next candidate of that loop
    good_choices,\* its running count
    selected,    \* its current selection (0: nothing assigned)
    draws        \* the values random2 returned to it so far

charVars == <<ng, choice, defaults, ng_reset, request0, prompted, pc, site,
              order, last, exit_msg, maps, sprint_map>>
selVars  == <<stream, pos, good_choices, selected, draws>>
\* what no step of the character pipeline changes
inputVars == <<maps, sprint_map, stream, pos, good_choices, selected, draws>>
keptVars == <<request0, maps, sprint_map, stream, pos, good_choices, selected,
              draws>>
fixedVars == <<request0, prompted, maps, sprint_map, stream, pos, good_choices,
               selected, draws>>
vars     == <<ng, choice, defaults, ng_reset, request0, prompted, pc, site, order,
              last, exit_msg, maps, sprint_map, stream, pos, good_choices,
              selected, draws>>

(***************************************************************************)
(* Bounds of the model.                                                    *)
(***************************************************************************)
\* the longest candidate stream of the stand-alone selection loop
MaxStream == 4

(***************************************************************************)
(* Enumerations.                                                           *)
(***************************************************************************)
\* species_type: the species a game can start with, in menu order
species_order == <<"SP_HUMAN", "SP_KOBOLD", "SP_FELID">>

\* a species of the enum that is no starting species
NonStartingSpecies == {"SP_RED_DRACONIAN"}

SpeciesPlaceholders == {"SP_UNKNOWN", "SP_RANDOM", "SP_VIABLE"}

Range(s) == {s[i] : i \in 1..Len(s)}

is_starting_species(sp) == sp \in Range(species_order)

\* job_type(0) .. job_type(NUM_JOBS - 1), in enum order
all_jobs == <<"JOB_FIGHTER", "JOB_WIZARD", "JOB_DEATH_KNIGHT", "JOB_HUNTER">>

NUM_JOBS == Len(all_jobs)

\* the jobs listed in jobs_order
jobs_order == {"JOB_FIGHTER", "JOB_HUNTER", "JOB_WIZARD"}

JobPlaceholders == {"JOB_UNKNOWN", "JOB_RANDOM", "JOB_VIABLE"}

is_starting_job(job) == job \in jobs_order

WeaponPlaceholders == {"WPN_UNKNOWN", "WPN_RANDOM", "WPN_VIABLE"}

_is_random_species(sp) == sp = "SP_RANDOM" \/ sp = "SP_VIABLE"

_is_random_job(job) == job = "JOB_RANDOM" \/ job = "JOB_VIABLE"

_char_defined(n) == n.species # "SP_UNKNOWN" /\ n.job # "JOB_UNKNOWN"

(***************************************************************************)
(* The compatibility oracle (ng-restr.cc), by its interface.               *)
(***************************************************************************)
CC_BANNED == "CC_BANNED"
CC_RESTRICTED == "CC_RESTRICTED"
CC_UNRESTRICTED == "CC_UNRESTRICTED"

_banned_combination(job, species) ==
    species = "SP_FELID" /\ job = "JOB_HUNTER"

\* the species a job recommends
job_recommends_species(job, species) ==
    \/ job = "JOB_FIGHTER" /\ species = "SP_HUMAN"
    \/ job = "JOB_HUNTER" /\ species \in {"SP_HUMAN", "SP_KOBOLD"}

\* the jobs a species recommends
species_recommends_job(species, job) ==
    \/ species = "SP_HUMAN" /\ job \in {"JOB_FIGHTER", "JOB_WIZARD"}
    \/ species = "SP_FELID" /\ job = "JOB_WIZARD"

species_allowed(job, species) ==
    IF ~is_starting_species(species) \/ ~is_starting_job(job) THEN CC_BANNED
    ELSE IF _banned_combination(job, species) THEN CC_BANNED
    ELSE IF job_recommends_species(job, species) THEN CC_UNRESTRICTED
    ELSE CC_RESTRICTED

job_allowed(species, job) ==
    IF ~is_starting_species(species) \/ ~is_starting_job(job) THEN CC_BANNED
    ELSE IF _banned_combination(job, species) THEN CC_BANNED
    ELSE IF species_recommends_job(species, job) THEN CC_UNRESTRICTED
    ELSE CC_RESTRICTED

is_good_combination(spc, job, species_first, good) ==
    LET restrict == IF species_first THEN job_allowed(spc, job)
                    ELSE species_allowed(job, spc)
    IN  IF good THEN restrict = CC_UNRESTRICTED ELSE restrict # CC_BANNED

(***************************************************************************)
(* The streaming selection: for (c : candidates)                           *)
(*     if (pred(c) && one_chance_in(++good_choices)) selection = c;        *)
(* A stream is a sequence of [val, ok]: the candidate and whether the      *)
(* predicate holds of it.  d[k] is the value random2(k) returns to the     *)
(* k-th call of one_chance_in.                                             *)
(***************************************************************************)
\* one_chance_in(n) is random2(n) == 0; r is what random2(n) returned
one_chance_in(n, r) == r = 0

\* the results random2(1), random2(2), ..., random2(n) can return
RECURSIVE DrawSeqs(_)
DrawSeqs(n) ==
    IF n = 0 THEN {<<>>}
    ELSE {Append(d, r) : d \in DrawSeqs(n - 1), r \in 0..(n - 1)}

\* the loop with a coin instead of one_chance_in(++good_choices)
SelectStepCoin(st, cand, r) ==
    IF cand.ok
    THEN [good_choices |-> st.good_choices + 1,
          sel |-> IF r % 2 = 0 THEN cand.val ELSE st.sel]
    ELSE st

\* the loop assigning a candidate that fails the predicate
SelectStepAssigning(st, cand, r) ==
    IF cand.ok
    THEN [good_choices |-> st.good_choices + 1,
          sel |-> IF one_chance_in(st.good_choices + 1, r) THEN cand.val ELSE st.sel]
    ELSE [st EXCEPT !.sel = cand.val]

\* one candidate: st = [good_choices, sel]
SelectStep(st, cand, r) ==
    IF cand.ok
    THEN [good_choices |-> st.good_choices + 1,
          sel |-> IF one_chance_in(st.good_choices + 1, r) THEN cand.val ELSE st.sel]
    ELSE st

RECURSIVE SelectFrom(_, _, _, _)
SelectFrom(s, i, d, st) ==
    IF i > Len(s) THEN st
    ELSE SelectFrom(s, i + 1, d,
                    SelectStep(st, s[i],
                               IF s[i].ok THEN d[st.good_choices + 1] ELSE 0))

\* the whole loop, run on a field that holds `before`
StreamSelect(s, d, before) ==
    SelectFrom(s, 1, d, [good_choices |-> 0, sel |-> before])

(***************************************************************************)
(* newgame_def.                                                            *)
(***************************************************************************)
NoMsg == "none"

\* newgame_def::newgame_def()
newgame_def ==
    [name |-> "", type |-> "GAME_TYPE_NORMAL", map |-> "",
     species |-> "SP_UNKNOWN", job |-> "JOB_UNKNOWN", weapon |-> "WPN_UNKNOWN",
     fully_random |-> FALSE,
     allowed_species |-> <<>>, allowed_jobs |-> <<>>,
     allowed_weapons |-> <<>>, allowed_combos |-> <<>>]

\* newgame_def::clear_character()
clear_character(n) ==
    [n EXCEPT !.species = "SP_UNKNOWN", !.job = "JOB_UNKNOWN",
              !.weapon = "WPN_UNKNOWN"]

\* choose_tutorial_character(ng_choice)
choose_tutorial_character(c) ==
    [c EXCEPT !.species = "SP_HUMAN", !.job = "JOB_FIGHTER", !.weapon = "WPN_FLAIL"]

(***************************************************************************)
(* _resolve_species and _resolve_job.  Each gives the set of results the   *)
(* random draws allow: [ng, req, msg, path, count], where req is the value *)
(* switched on, msg is the message of end(1, ...) when the call ends the   *)
(* process, path names the branch that assigned the field and count is the *)
(* good_choices of its last loop.                                          *)
(***************************************************************************)
\* the species loop of the random draw without its predicate
SpeciesStreamUnfiltered(job, good) ==
    [i \in 1..Len(species_order) |-> [val |-> species_order[i], ok |-> TRUE]]

\* for (sp : species_order) is_good_combination(sp, ng.job, false, good)
SpeciesStream(job, good) ==
    [i \in 1..Len(species_order) |->
        [val |-> species_order[i],
         ok |-> is_good_combination(species_order[i], job, FALSE, good)]]

\* for (i < NUM_JOBS) is_good_combination(ng.species, job_type(i), true, good)
JobStream(species, good) ==
    [i \in 1..NUM_JOBS |->
        [val |-> all_jobs[i],
         ok |-> is_good_combination(species, all_jobs[i], TRUE, good)]]

Result(n, msg, path, count) ==
    [ng |-> n, req |-> "none", msg |-> msg, path |-> path, count |-> count]

\* the results of a switch (req), tagged with the value switched on
Switch(req, results) == {[r EXCEPT !.req = req] : r \in results}

\* the random draw of a species that goes on when it counted nothing
_resolve_species_random_silent(n) ==
    IF n.job = "JOB_UNKNOWN"
    THEN {Result([n EXCEPT !.species = sp], NoMsg, "any", 0) :
             sp \in {x \in Range(species_order) : is_starting_species(x)}}
    ELSE {LET r == StreamSelect(SpeciesStream(n.job, FALSE), d, n.species)
          IN  Result([n EXCEPT !.species = r.sel], NoMsg, "legal", r.good_choices) :
             d \in DrawSeqs(Len(species_order))}

\* case SP_RANDOM: (also reached by falling through from SP_VIABLE)
_resolve_species_random(n) ==
    IF n.job = "JOB_UNKNOWN"
    THEN {Result([n EXCEPT !.species = sp], NoMsg, "any", 0) :
             sp \in {x \in Range(species_order) : is_starting_species(x)}}
    ELSE {LET r == StreamSelect(SpeciesStream(n.job, FALSE), d, n.species)
          IN  Result([n EXCEPT !.species = r.sel],
                     IF r.good_choices = 0 THEN "Failed to find legal species."
                     ELSE NoMsg,
                     "legal", r.good_choices) :
             d \in DrawSeqs(Len(species_order))}

\* the viable draw of a species that returns nothing when it counted nothing
_resolve_species_viable_only(n) ==
    {LET r == StreamSelect(SpeciesStream(n.job, TRUE), d, n.species)
     IN  Result([n EXCEPT !.species = r.sel], NoMsg, "viable", r.good_choices) :
        d \in DrawSeqs(Len(species_order))}

\* case SP_VIABLE:
_resolve_species_viable(n) ==
    UNION {LET r == StreamSelect(SpeciesStream(n.job, TRUE), d, n.species)
           IN  IF r.good_choices # 0
               THEN {Result([n EXCEPT !.species = r.sel], NoMsg, "viable",
                            r.good_choices)}
               ELSE _resolve_species_random([n EXCEPT !.species = r.sel]) :
              d \in DrawSeqs(Len(species_order))}

\* _resolve_species without "Don't overwrite existing species"
_resolve_species_overwriting(n, c) ==
    Switch(c.species,
    IF c.species = "SP_UNKNOWN"
    THEN {Result([n EXCEPT !.species = "SP_UNKNOWN"], NoMsg, "unknown", 0)}
    ELSE IF c.species = "SP_VIABLE" THEN _resolve_species_viable(n)
    ELSE IF c.species = "SP_RANDOM" THEN _resolve_species_random(n)
    ELSE {Result([n EXCEPT !.species = c.species], NoMsg, "concrete", 0)})

_resolve_species(n, c) ==
    Switch(c.species,
    IF n.species # "SP_UNKNOWN" THEN {Result(n, NoMsg, "kept", 0)}
    ELSE IF c.species = "SP_UNKNOWN"
    THEN {Result([n EXCEPT !.species = "SP_UNKNOWN"], NoMsg, "unknown", 0)}
    ELSE IF c.species = "SP_VIABLE" THEN _resolve_species_viable(n)
    ELSE IF c.species = "SP_RANDOM" THEN _resolve_species_random(n)
    ELSE {Result([n EXCEPT !.species = c.species], NoMsg, "concrete", 0)})

\* case JOB_RANDOM: (also reached by falling through from JOB_VIABLE)
_resolve_job_random(n) ==
    IF n.species = "SP_UNKNOWN"
    THEN {Result([n EXCEPT !.job = all_jobs[i]], NoMsg, "any", 0) :
             i \in {x \in 1..NUM_JOBS : is_starting_job(all_jobs[x])}}
    ELSE {LET r == StreamSelect(JobStream(n.species, FALSE), d, n.job)
          IN  Result([n EXCEPT !.job = r.sel],
                     IF r.good_choices = 0 THEN "Failed to find legal background."
                     ELSE NoMsg,
                     "legal", r.good_choices) :
             d \in DrawSeqs(NUM_JOBS)}

\* case JOB_VIABLE:
_resolve_job_viable(n) ==
    UNION {LET r == StreamSelect(JobStream(n.species, TRUE), d, n.job)
           IN  IF r.good_choices # 0
               THEN {Result([n EXCEPT !.job = r.sel], NoMsg, "viable",
                            r.good_choices)}
               ELSE _resolve_job_random([n EXCEPT !.job = r.sel]) :
              d \in DrawSeqs(NUM_JOBS)}

\* _resolve_job without "Don't overwrite existing job"
_resolve_job_overwriting(n, c) ==
    Switch(c.job,
    IF c.job = "JOB_UNKNOWN"
    THEN {Result([n EXCEPT !.job = "JOB_UNKNOWN"], NoMsg, "unknown", 0)}
    ELSE IF c.job = "JOB_VIABLE" THEN _resolve_job_viable(n)
    ELSE IF c.job = "JOB_RANDOM" THEN _resolve_job_random(n)
    ELSE {Result([n EXCEPT !.job = c.job], NoMsg, "concrete", 0)})

_resolve_job(n, c) ==
    Switch(c.job,
    IF n.job # "JOB_UNKNOWN" THEN {Result(n, NoMsg, "kept", 0)}
    ELSE IF c.job = "JOB_UNKNOWN"
    THEN {Result([n EXCEPT !.job = "JOB_UNKNOWN"], NoMsg, "unknown", 0)}
    ELSE IF c.job = "JOB_VIABLE" THEN _resolve_job_viable(n)
    ELSE IF c.job = "JOB_RANDOM" THEN _resolve_job_random(n)
    ELSE {Result([n EXCEPT !.job = c.job], NoMsg, "concrete", 0)})

\* _resolve_species_job without the coin
ResolveOrdersNoCoin(c) ==
    LET spfirst  == c.species # "SP_VIABLE" /\ c.job = "JOB_VIABLE"
        jobfirst == c.species = "SP_VIABLE" /\ c.job # "JOB_VIABLE"
    IN  {IF spfirst \/ ~jobfirst THEN "species" ELSE "job"}

\* _resolve_species_job with the two tests exchanged
ResolveOrdersExchanged(c) ==
    LET spfirst  == c.species = "SP_VIABLE" /\ c.job # "JOB_VIABLE"
        jobfirst == c.species # "SP_VIABLE" /\ c.job = "JOB_VIABLE"
    IN  {IF spfirst \/ (~jobfirst /\ coinflip) THEN "species" ELSE "job" :
            coinflip \in BOOLEAN}

\* the orders _resolve_species_job can take: spfirst || !jobfirst && coinflip()
ResolveOrders(c) ==
    LET spfirst  == c.species # "SP_VIABLE" /\ c.job = "JOB_VIABLE"
        jobfirst == c.species = "SP_VIABLE" /\ c.job # "JOB_VIABLE"
    IN  {IF spfirst \/ (~jobfirst /\ coinflip) THEN "species" ELSE "job" :
            coinflip \in BOOLEAN}

(***************************************************************************)
(* The weapon stage.                                                       *)
(***************************************************************************)
\* jobs.cc: the job's weapon_choice is not "none"
job_has_weapon_choice(job) == job \in {"JOB_FIGHTER", "JOB_HUNTER", "JOB_DEATH_KNIGHT"}

\* jobs.cc: the job's weapon_choice is "good"
job_gets_good_weapons(job) == job = "JOB_FIGHTER"

\* jobs.cc: the job starts with a ranged weapon
job_gets_ranged_weapons(job) == job = "JOB_HUNTER"

\* species_size(species, PSIZE_TORSO) <= SIZE_SMALL
species_is_small(species) == species = "SP_KOBOLD"

\* ng-restr.cc: weapon_restriction(wpn, ng)
weapon_restriction(wpn, n) ==
    IF n.species = "SP_FELID"
    THEN IF wpn = "WPN_UNARMED" THEN CC_UNRESTRICTED ELSE CC_BANNED
    ELSE IF wpn \in {"WPN_QUARTERSTAFF", "WPN_UNARMED", "WPN_TRIDENT",
                     "WPN_HAND_CROSSBOW"}
    THEN CC_BANNED
    ELSE IF n.species = "SP_KOBOLD"
    THEN IF wpn \in {"WPN_WAR_AXE", "WPN_HAND_AXE", "WPN_LONG_SWORD",
                     "WPN_FALCHION", "WPN_THROWN", "WPN_SHORTBOW"}
         THEN CC_BANNED
         ELSE CC_RESTRICTED
    ELSE IF wpn \in {"WPN_RAPIER", "WPN_SHORT_SWORD", "WPN_SPEAR"} THEN CC_BANNED
    ELSE IF wpn \in {"WPN_FLAIL", "WPN_WAR_AXE", "WPN_MACE", "WPN_HAND_AXE",
                     "WPN_THROWN", "WPN_SHORTBOW"}
    THEN CC_UNRESTRICTED
    ELSE CC_RESTRICTED

\* _starting_weapon_upgrade without the exception of the small fighter
_starting_weapon_upgrade_plain(wp, job, species) ==
    CASE wp = "WPN_SHORT_SWORD" -> "WPN_RAPIER"
      [] wp = "WPN_MACE" -> "WPN_FLAIL"
      [] wp = "WPN_HAND_AXE" -> "WPN_WAR_AXE"
      [] wp = "WPN_SPEAR" -> "WPN_TRIDENT"
      [] wp = "WPN_FALCHION" -> "WPN_LONG_SWORD"
      [] OTHER -> wp

_starting_weapon_upgrade(wp, job, species) ==
    LET fighter == job = "JOB_FIGHTER"
    IN  CASE wp = "WPN_SHORT_SWORD" -> "WPN_RAPIER"
          [] wp = "WPN_MACE" -> "WPN_FLAIL"
          [] wp = "WPN_HAND_AXE" -> "WPN_WAR_AXE"
          [] wp = "WPN_SPEAR" ->
                IF fighter /\ species_is_small(species) THEN wp ELSE "WPN_TRIDENT"
          [] wp = "WPN_FALCHION" -> "WPN_LONG_SWORD"
          [] OTHER -> wp

ranged_startwep ==
    <<"WPN_THROWN", "WPN_HUNTING_SLING", "WPN_SHORTBOW", "WPN_HAND_CROSSBOW">>

melee_startwep ==
    <<"WPN_SHORT_SWORD", "WPN_MACE", "WPN_HAND_AXE", "WPN_SPEAR", "WPN_FALCHION",
      "WPN_QUARTERSTAFF", "WPN_UNARMED">>

\* vector<weapon_choice>: a sequence of [first, second]
_get_weapons(n) ==
    LET startwep == IF job_gets_ranged_weapons(n.job) THEN ranged_startwep
                    ELSE melee_startwep
        first(i) == IF ~job_gets_ranged_weapons(n.job) /\ job_gets_good_weapons(n.job)
                    THEN _starting_weapon_upgrade(startwep[i], n.job, n.species)
                    ELSE startwep[i]
        all == [i \in 1..Len(startwep) |->
                   [first |-> first(i), second |-> weapon_restriction(first(i), n)]]
        NotBanned(wp) == wp.second # CC_BANNED
    IN  SelectSeq(all, NotBanned)

\* _fixup_weapon without the search of the candidate list
_fixup_weapon_unchecked(wp, weapons) == wp

_fixup_weapon(wp, weapons) ==
    IF wp \in WeaponPlaceholders THEN wp
    ELSE IF \E i \in 1..Len(weapons) : wp = weapons[i].first THEN wp
    ELSE "WPN_UNKNOWN"

\* for (choice : weapons) choice.second == CC_UNRESTRICTED
WeaponStream(weapons) ==
    [i \in 1..Len(weapons) |->
        [val |-> weapons[i].first, ok |-> weapons[i].second = CC_UNRESTRICTED]]

\* case WPN_RANDOM: (also reached by falling through from WPN_VIABLE)
_resolve_weapon_random(n, weapons) ==
    {Result([n EXCEPT !.weapon = weapons[i].first], NoMsg, "any", 0) :
        i \in 1..Len(weapons)}

\* case WPN_VIABLE:
_resolve_weapon_viable(n, weapons) ==
    UNION {LET r == StreamSelect(WeaponStream(weapons), d, n.weapon)
           IN  IF r.good_choices # 0
               THEN {Result([n EXCEPT !.weapon = r.sel], NoMsg, "viable",
                            r.good_choices)}
               ELSE _resolve_weapon_random([n EXCEPT !.weapon = r.sel], weapons) :
              d \in DrawSeqs(Len(weapons))}

\* the values `weapon` can hold at the switch
SwitchWeapons(c) ==
    IF Len(c.allowed_weapons) # 0 THEN Range(c.allowed_weapons) ELSE {c.weapon}

_resolve_weapon(n, c, weapons) ==
    UNION {Switch(weapon,
              IF weapon = "WPN_VIABLE" THEN _resolve_weapon_viable(n, weapons)
              ELSE IF weapon = "WPN_RANDOM" THEN _resolve_weapon_random(n, weapons)
              ELSE {Result([n EXCEPT !.weapon = _fixup_weapon(c.weapon, weapons)],
                           NoMsg, "concrete", 0)}) :
              weapon \in SwitchWeapons(c)}

(***************************************************************************)
(* The requests the model starts from.                                     *)
(***************************************************************************)
SpeciesRequests == SpeciesPlaceholders \cup Range(species_order) \cup NonStartingSpecies

JobRequests == JobPlaceholders \cup Range(all_jobs)

WeaponRequests == WeaponPlaceholders \cup {"WPN_FLAIL", "WPN_SHORTBOW"}

\* Options.game: a request without allow-lists
PlainRequests ==
    {[newgame_def EXCEPT !.name = "Ann", !.species = sp, !.job = job,
                         !.weapon = wpn, !.fully_random = fr] :
        sp \in SpeciesRequests, job \in JobRequests, wpn \in WeaponRequests,
        fr \in BOOLEAN}

\* requests with allow-lists (the "species =", "background =" and "weapon ="
\* option lines): <<allowed_species, allowed_jobs, allowed_weapons, species, job>>
AllowListCases ==
    {<<<<"SP_HUMAN", "SP_FELID">>, <<>>, <<>>, "SP_UNKNOWN", "JOB_HUNTER">>,
     <<<<"SP_FELID", "SP_RED_DRACONIAN">>, <<>>, <<>>, "SP_UNKNOWN", "JOB_HUNTER">>,
     <<<<"SP_RANDOM", "SP_KOBOLD">>, <<"JOB_FIGHTER", "JOB_VIABLE">>, <<>>,
       "SP_UNKNOWN", "JOB_UNKNOWN">>,
     <<<<"SP_HUMAN", "SP_KOBOLD">>, <<"JOB_FIGHTER", "JOB_WIZARD">>,
       <<"WPN_RANDOM", "WPN_WAR_AXE">>, "SP_UNKNOWN", "JOB_UNKNOWN">>,
     <<<<>>, <<"JOB_HUNTER">>, <<>>, "SP_UNKNOWN", "JOB_UNKNOWN">>,
     <<<<>>, <<>>, <<"WPN_VIABLE", "WPN_FLAIL">>, "SP_HUMAN", "JOB_FIGHTER">>,
     <<<<>>, <<>>, <<"WPN_VIABLE", "WPN_FLAIL">>, "SP_RANDOM", "JOB_UNKNOWN">>}

AllowListRequests ==
    {[newgame_def EXCEPT !.name = "Ann", !.species = t[4], !.job = t[5],
                         !.fully_random = fr, !.allowed_species = t[1],
                         !.allowed_jobs = t[2], !.allowed_weapons = t[3]] :
        t \in AllowListCases, fr \in BOOLEAN}

\* requests of the hints mode and of the game types with a map
OtherRequests ==
    {[newgame_def EXCEPT !.name = "Ann", !.type = type, !.species = "SP_HUMAN",
                         !.job = "JOB_WIZARD", !.map = map] :
        type \in {"GAME_TYPE_HINTS", "GAME_TYPE_TUTORIAL", "GAME_TYPE_SPRINT"},
        map \in {"", "random", "map_a", "map_x"}}

\* requests without a player name
NamelessRequests ==
    {[newgame_def EXCEPT !.species = sp, !.job = "JOB_WIZARD"] :
        sp \in {"SP_UNKNOWN", "SP_RANDOM"}}

\* find_maps_for_tag: the maps of a game type
MapsInputs == {<<>>, <<"map_a">>, <<"map_b", "map_a">>}

\* the previous game's choice read from the options file
DefaultsInputs ==
    {newgame_def,
     [newgame_def EXCEPT !.name = "Ann", !.species = "SP_KOBOLD",
                         !.job = "JOB_FIGHTER", !.weapon = "WPN_FLAIL"]}

SprintDefaults ==
    [newgame_def EXCEPT !.name = "Ann", !.type = "GAME_TYPE_SPRINT",
                        !.species = "SP_FELID", !.job = "JOB_VIABLE",
                        !.map = "map_b"]

\* allow-lists of combo strings: "KoHu" and "Human Fighter . random";
\* "FeHu"; "Xy . flail"
CombosInputs ==
    {<< <<"K", "o", "H", "u">>,
        <<"H", "u", "m", "a", "n", " ", "F", "i", "g", "h", "t", "e", "r", " ",
          ".", " ", "r", "a", "n", "d", "o", "m">> >>,
     << <<"F", "e", "H", "u">> >>,
     << <<"X", "y", " ", ".", " ", "f", "l", "a", "i", "l">> >>}

CombosRequests ==
    {[newgame_def EXCEPT !.name = "Ann", !.species = "SP_FELID",
                         !.allowed_jobs = <<"JOB_WIZARD">>,
                         !.allowed_combos = cs] : cs \in CombosInputs}

HasMapStage(type) == type = "GAME_TYPE_SPRINT" \/ type = "GAME_TYPE_TUTORIAL"

NoLast == [fn |-> "none", req |-> "none", path |-> "none", count |-> 0, other |-> "none"]

\* the key that ended a menu: "escape" (CASE_ESCAPE, CK_MOUSE_CMD, a hangup),
\* "quit" ('X', Ctrl-Q, 'q' at the confirmation), "back" (M_ABORT, space),
\* "reject" ('n', tab, '!', '#' at the confirmation)
KeyLast(key) == [NoLast EXCEPT !.fn = "key", !.req = key]

SelIdle ==
    /\ stream = <<>>
    /\ pos = 1
    /\ good_choices = 0
    /\ selected = 0
    /\ draws = <<>>

Init ==
    /\ ng = newgame_def
    /\ \/ /\ choice \in PlainRequests
          /\ defaults \in DefaultsInputs
          /\ maps = <<>>
          /\ sprint_map = ""
       \/ /\ choice \in AllowListRequests
          /\ defaults = newgame_def
          /\ maps = <<>>
          /\ sprint_map = ""
       \/ /\ choice \in NamelessRequests \cup CombosRequests
          /\ defaults = newgame_def
          /\ maps = <<>>
          /\ sprint_map = ""
       \/ /\ choice \in OtherRequests
          /\ defaults \in {newgame_def, SprintDefaults}
          /\ IF HasMapStage(choice.type)
             THEN maps \in MapsInputs /\ sprint_map \in {"", "map_a"}
             ELSE maps = <<>> /\ sprint_map = ""
    /\ ng_reset = newgame_def
    /\ request0 = choice
    /\ prompted = FALSE
    /\ pc = "choose_game"
    /\ site = 0
    /\ order = "none"
    /\ last = NoLast
    /\ exit_msg = NoMsg
    /\ SelIdle

(***************************************************************************)
(* choose_game and _choose_char.                                           *)
(***************************************************************************)
\* choose_game calling _choose_gamemode_map for every game type but the normal one
ChooseGameMapForAll ==
    /\ pc = "choose_game"
    /\ ng' = [ng EXCEPT !.name = choice.name, !.type = choice.type,
                        !.map = choice.map]
    /\ pc' = (IF choice.type # "GAME_TYPE_NORMAL" THEN "choose_map"
              ELSE "choose_char")
    /\ last' = NoLast
    /\ UNCHANGED <<choice, defaults, ng_reset, site, order, exit_msg>>
    /\ UNCHANGED fixedVars

\* choose_game, lines 700-710
ChooseGame ==
    /\ pc = "choose_game"
    /\ ng' = [ng EXCEPT !.name = choice.name, !.type = choice.type,
                        !.map = choice.map]
    /\ pc' = (IF HasMapStage(choice.type) THEN "choose_map" ELSE "choose_char")
    /\ last' = NoLast
    /\ UNCHANGED <<choice, defaults, ng_reset, site, order, exit_msg>>
    /\ UNCHANGED fixedVars

\* hints.cc: pick_hints(choice)
pick_hints(c) ==
    {[c EXCEPT !.species = "SP_HUMAN", !.job = "JOB_WIZARD", !.weapon = "WPN_HAND_AXE"],
     [c EXCEPT !.species = "SP_HUMAN", !.job = "JOB_HUNTER", !.weapon = "WPN_SHORTBOW"]}

clear_allowed(c) ==
    [c EXCEPT !.allowed_jobs = <<>>, !.allowed_species = <<>>,
              !.allowed_weapons = <<>>]

\* _choose_char, lines 455-470
ChooseChar ==
    /\ pc = "choose_char"
    /\ ng_reset' = ng
    /\ IF ng.type = "GAME_TYPE_TUTORIAL"
       THEN choice' = clear_allowed(choose_tutorial_character(choice))
       ELSE IF ng.type = "GAME_TYPE_HINTS"
       THEN \E c \in pick_hints(choice) : choice' = clear_allowed(c)
       ELSE choice' = choice
    /\ pc' = "loop_top"
    /\ last' = NoLast
    /\ UNCHANGED <<ng, defaults, site, order, exit_msg>>
    /\ request0' = choice'
    /\ prompted' = prompted
    /\ UNCHANGED inputVars

(***************************************************************************)
(* Combo strings.  A string is the sequence of its characters.             *)
(***************************************************************************)
\* stringutil: trim_string(s)
RECURSIVE trim_string(_)
trim_string(s) ==
    IF Len(s) = 0 THEN s
    ELSE IF s[1] = " " THEN trim_string(Tail(s))
    ELSE IF s[Len(s)] = " " THEN trim_string(SubSeq(s, 1, Len(s) - 1))
    ELSE s

\* stringutil: split_string(".", s), which trims the parts and drops empty ones
RECURSIVE split_string(_)
split_string(s) ==
    LET dots == {i \in 1..Len(s) : s[i] = "."}
    IN  IF dots = {}
        THEN IF trim_string(s) = <<>> THEN <<>> ELSE <<trim_string(s)>>
        ELSE LET i == CHOOSE j \in dots : \A k \in dots : j <= k
                 head == trim_string(SubSeq(s, 1, i - 1))
                 rest == split_string(SubSeq(s, i + 1, Len(s)))
             IN  IF head = <<>> THEN rest ELSE <<head>> \o rest

\* string::substr(pos, n), for pos <= length
substr(s, posn, n) ==
    SubSeq(s, posn + 1, IF posn + n > Len(s) THEN Len(s) ELSE posn + n)

\* species-type.h: the species in the order of the enumeration
all_species == <<"SP_HUMAN", "SP_KOBOLD", "SP_FELID", "SP_RED_DRACONIAN">>

NUM_SPECIES == Len(all_species)

\* species.cc: species_name(sp)
species_name(sp) ==
    CASE sp = "SP_HUMAN"  -> <<"H", "u", "m", "a", "n">>
      [] sp = "SP_KOBOLD" -> <<"K", "o", "b", "o", "l", "d">>
      [] sp = "SP_FELID"  -> <<"F", "e", "l", "i", "d">>
      [] OTHER -> <<"R", "e", "d", " ", "D", "r", "a", "c", "o", "n", "i", "a", "n">>

\* species.cc: get_species_by_abbrev(abbrev)
get_species_by_abbrev(abbrev) ==
    CASE abbrev = <<"H", "u">> -> "SP_HUMAN"
      [] abbrev = <<"K", "o">> -> "SP_KOBOLD"
      [] abbrev = <<"F", "e">> -> "SP_FELID"
      [] abbrev = <<"D", "r">> -> "SP_RED_DRACONIAN"
      [] OTHER -> "SP_UNKNOWN"

\* jobs.cc: get_job_by_abbrev(abbrev)
get_job_by_abbrev(abbrev) ==
    CASE abbrev = <<"F", "i">> -> "JOB_FIGHTER"
      [] abbrev = <<"W", "z">> -> "JOB_WIZARD"
      [] abbrev = <<"D", "K">> -> "JOB_DEATH_KNIGHT"
      [] abbrev = <<"H", "u">> -> "JOB_HUNTER"
      [] OTHER -> "JOB_UNKNOWN"

\* jobs.cc: get_job_by_name(name)
get_job_by_name(name) ==
    CASE name = <<"F", "i", "g", "h", "t", "e", "r">> -> "JOB_FIGHTER"
      [] name = <<"W", "i", "z", "a", "r", "d">> -> "JOB_WIZARD"
      [] name = <<"H", "u", "n", "t", "e", "r">> -> "JOB_HUNTER"
      [] name = <<"D", "e", "a", "t", "h", " ", "K", "n", "i", "g", "h", "t">>
            -> "JOB_DEATH_KNIGHT"
      [] OTHER -> "JOB_UNKNOWN"

\* ng-init.cc: str_to_job(str)
str_to_job(str) ==
    IF get_job_by_abbrev(str) # "JOB_UNKNOWN" THEN get_job_by_abbrev(str)
    ELSE get_job_by_name(str)

\* ng-init.cc: str_to_weapon(str)
str_to_weapon(str) ==
    CASE str = <<"f", "l", "a", "i", "l">> -> "WPN_FLAIL"
      [] str = <<"r", "a", "n", "d", "o", "m">> -> "WPN_RANDOM"
      [] str = <<"v", "i", "a", "b", "l", "e">> -> "WPN_VIABLE"
      [] OTHER -> "WPN_UNKNOWN"

\* lines 516-524: the first species whose name starts the string, or 0
NamedSpecies(character) ==
    LET hits == {i \in 1..NUM_SPECIES :
                    /\ Len(character) >= Len(species_name(all_species[i]))
                    /\ substr(character, 0, Len(species_name(all_species[i])))
                           = species_name(all_species[i])}
    IN  IF hits = {} THEN 0 ELSE CHOOSE i \in hits : \A k \in hits : i <= k

\* lines 489-540: what one combo string makes of the choice; thrown tells
\* that substr was called beyond the end of the string (std::out_of_range)
ParseCombo(c, combo) ==
    LET parts == split_string(combo)
        c0 == clear_character(c)
    IN  IF Len(parts) = 0 THEN [thrown |-> FALSE, choice |-> c0]
        ELSE
        LET character == trim_string(parts[1])
            hit == NamedSpecies(character)
            \* sp after the loop: the species found, else the last one tried
            sp == all_species[IF hit = 0 THEN NUM_SPECIES ELSE hit]
            thrown == Len(character) # 4 /\ Len(species_name(sp)) > Len(character)
            c1 == IF Len(character) = 4
                  THEN [c0 EXCEPT
                           !.species = get_species_by_abbrev(substr(character, 0, 2)),
                           !.job = get_job_by_abbrev(substr(character, 2, 2))]
                  ELSE IF thrown THEN c0
                  ELSE [c0 EXCEPT
                           !.species = IF hit = 0 THEN "SP_UNKNOWN" ELSE sp,
                           !.job = str_to_job(trim_string(
                                       substr(character, Len(species_name(sp)),
                                              Len(character))))]
            c2 == IF Len(parts) > 1
                  THEN [c1 EXCEPT !.weapon = str_to_weapon(trim_string(parts[2]))]
                  ELSE c1
        IN  [thrown |-> thrown, choice |-> IF thrown THEN c0 ELSE c2]

\* the head of the loop leaving the allow-lists aside
AllowedPickIgnored(list, current) == {current}

\* the values an allow-list lets the loop put into a field
AllowedPick(list, current) ==
    IF Len(list) # 0 THEN Range(list) ELSE {current}

\* _choose_char, lines 489-560: the head of the loop
LoopTop ==
    /\ pc = "loop_top"
    /\ IF Len(choice.allowed_combos) # 0
       THEN \E i \in 1..Len(choice.allowed_combos) :
              LET parsed == ParseCombo(choice, choice.allowed_combos[i])
              IN  /\ choice' = parsed.choice
                  /\ pc' = IF parsed.thrown THEN "fatal" ELSE "resolve_first"
                  /\ exit_msg' = IF parsed.thrown THEN "std::out_of_range"
                                 ELSE exit_msg
       ELSE /\ \E sp \in AllowedPick(choice.allowed_species, choice.species),
                  job \in AllowedPick(choice.allowed_jobs, choice.job),
                  wpn \in AllowedPick(choice.allowed_weapons, choice.weapon) :
                    choice' = [choice EXCEPT !.species = sp, !.job = job,
                                             !.weapon = wpn]
            /\ pc' = "resolve_first"
            /\ exit_msg' = exit_msg
    /\ site' = 390
    /\ order' = "none"
    /\ last' = NoLast
    /\ UNCHANGED <<ng, defaults, ng_reset>>
    /\ UNCHANGED fixedVars

(***************************************************************************)
(* _choose_species_job.                                                    *)
(***************************************************************************)
ResolveField(f) ==
    IF f = "species" THEN _resolve_species(ng, choice) ELSE _resolve_job(ng, choice)

OtherField(f) == IF f = "species" THEN "job" ELSE "species"

LastOf(f, r) ==
    [fn |-> f,
     req |-> r.req,
     path |-> r.path,
     count |-> r.count,
     other |-> IF f = "species" THEN ng.job ELSE ng.species]

\* the loop of _choose_species_job with a condition that never fails
AfterResolveLooping(s, c) ==
    IF s = 400
    THEN IF c.job = "JOB_UNKNOWN" THEN [pc |-> "prompt_job", site |-> 0]
         ELSE [pc |-> "resolve_first", site |-> 403]
    ELSE IF c.species = "SP_UNKNOWN" THEN [pc |-> "prompt_species", site |-> 0]
    ELSE [pc |-> "resolve_first", site |-> 400]

\* lines 392-404 as an if: the menus are shown once and never again
AfterResolveOnce(s, c) ==
    IF s = 400
    THEN IF c.job = "JOB_UNKNOWN" THEN [pc |-> "prompt_job", site |-> 0]
         ELSE [pc |-> "resolve_first", site |-> 403]
    ELSE IF s = 390 /\ (c.species = "SP_UNKNOWN" \/ c.job = "JOB_UNKNOWN")
    THEN IF c.species = "SP_UNKNOWN" THEN [pc |-> "prompt_species", site |-> 0]
         ELSE [pc |-> "resolve_first", site |-> 400]
    ELSE [pc |-> "final_check", site |-> 0]

\* where _choose_species_job goes on after the _resolve_species_job of line s
AfterResolve(s, c) ==
    IF s = 400
    THEN IF c.job = "JOB_UNKNOWN" THEN [pc |-> "prompt_job", site |-> 0]
         ELSE [pc |-> "resolve_first", site |-> 403]
    ELSE IF c.species = "SP_UNKNOWN" \/ c.job = "JOB_UNKNOWN"
    THEN IF c.species = "SP_UNKNOWN" THEN [pc |-> "prompt_species", site |-> 0]
         ELSE [pc |-> "resolve_first", site |-> 400]
    ELSE [pc |-> "final_check", site |-> 0]

\* _resolve_species_job taking field f first
ResolveFirstIn(f) ==
    /\ pc = "resolve_first"
    /\ f \in ResolveOrders(choice)
    /\ \E r \in ResolveField(f) :
        /\ order' = f
        /\ ng' = r.ng
        /\ last' = LastOf(f, r)
        /\ exit_msg' = r.msg
        /\ pc' = IF r.msg # NoMsg THEN "fatal" ELSE "resolve_second"
    /\ UNCHANGED <<choice, defaults, ng_reset, site>>
    /\ UNCHANGED fixedVars

\* _resolve_species_job: the order and the first field
ResolveFirst == \E f \in {"species", "job"} : ResolveFirstIn(f)

\* _resolve_species_job: the second field, and on to the loop of the caller
ResolveSecond ==
    /\ pc = "resolve_second"
    /\ \E r \in ResolveField(OtherField(order)) :
        /\ ng' = r.ng
        /\ last' = LastOf(OtherField(order), r)
        /\ exit_msg' = r.msg
        /\ IF r.msg # NoMsg
           THEN pc' = "fatal" /\ site' = site
           ELSE pc' = AfterResolve(site, choice).pc
                /\ site' = AfterResolve(site, choice).site
    /\ UNCHANGED <<choice, defaults, ng_reset, order>>
    /\ prompted' = (site = 400 /\ prompted)
    /\ UNCHANGED keptVars

\* _choose_species_job without its last check (lines 406-412)
FinalCheckOmitted ==
    /\ pc = "final_check"
    /\ pc' = (IF choice.fully_random THEN "reroll" ELSE "choose_weapon")
    /\ order' = "none"
    /\ last' = NoLast
    /\ UNCHANGED <<ng, choice, defaults, ng_reset, site, exit_msg>>
    /\ UNCHANGED fixedVars

\* _choose_char, line 564, without the call of _reroll_random
FinalCheckNeverAsking ==
    /\ pc = "final_check"
    /\ IF job_allowed(ng.species, ng.job) = CC_BANNED
       THEN pc' = "fatal"
            /\ exit_msg' = "Incompatible species and background selected."
       ELSE pc' = "choose_weapon"
            /\ exit_msg' = exit_msg
    /\ order' = "none"
    /\ last' = NoLast
    /\ UNCHANGED <<ng, choice, defaults, ng_reset, site>>
    /\ UNCHANGED fixedVars

\* _choose_species_job, lines 406-412, and _choose_char, line 564
FinalCheck ==
    /\ pc = "final_check"
    /\ IF job_allowed(ng.species, ng.job) = CC_BANNED
       THEN pc' = "fatal"
            /\ exit_msg' = "Incompatible species and background selected."
       ELSE pc' = (IF choice.fully_random THEN "reroll" ELSE "choose_weapon")
            /\ exit_msg' = exit_msg
    /\ order' = "none"
    /\ last' = NoLast
    /\ UNCHANGED <<ng, choice, defaults, ng_reset, site>>
    /\ UNCHANGED fixedVars

(***************************************************************************)
(* _prompt_choice: the species menu and the job menu (UINewGameMenu).      *)
(***************************************************************************)
AtChoicePrompt == pc \in {"prompt_species", "prompt_job"}

\* m_choice_type == C_JOB
IsJobMenu == pc = "prompt_job"

\* _prompt_choice returns: line 400 follows the species menu, 403 the job menu
PromptReturns ==
    /\ pc' = "resolve_first"
    /\ site' = (IF IsJobMenu THEN 403 ELSE 400)
    /\ order' = "none"
    /\ last' = NoLast
    /\ UNCHANGED <<defaults, ng_reset, exit_msg>>
    /\ prompted' = TRUE
    /\ UNCHANGED keptVars

\* on_event: 'X' or Ctrl-Q, then end(0)
PromptEndGame ==
    /\ AtChoicePrompt
    /\ pc' = "exit"
    /\ order' = "none"
    /\ last' = KeyLast("quit")
    /\ UNCHANGED <<ng, choice, defaults, ng_reset, site, exit_msg>>
    /\ UNCHANGED fixedVars

\* on_event taking escape as a key that clears the field and returns
PromptCancelReturning ==
    /\ AtChoicePrompt
    /\ choice' = (IF IsJobMenu THEN [choice EXCEPT !.job = "JOB_UNKNOWN"]
                  ELSE [choice EXCEPT !.species = "SP_UNKNOWN"])
    /\ ng' = ng
    /\ pc' = "resolve_first"
    /\ site' = (IF IsJobMenu THEN 403 ELSE 400)
    /\ order' = "none"
    /\ last' = KeyLast("escape")
    /\ UNCHANGED <<defaults, ng_reset, exit_msg>>
    /\ UNCHANGED fixedVars

\* on_event: escape (or a hangup), then game_ended(game_exit::abort)
PromptCancel ==
    /\ AtChoicePrompt
    /\ pc' = "abort"
    /\ order' = "none"
    /\ last' = KeyLast("escape")
    /\ UNCHANGED <<ng, choice, defaults, ng_reset, site, exit_msg>>
    /\ UNCHANGED fixedVars

\* on_event: CK_BKSP
PromptBksp ==
    /\ AtChoicePrompt
    /\ choice' = IF IsJobMenu THEN [choice EXCEPT !.job = "JOB_UNKNOWN"]
                 ELSE [choice EXCEPT !.species = "SP_UNKNOWN"]
    /\ ng' = ng
    /\ PromptReturns

_mark_fully_random(c, viable) ==
    [c EXCEPT !.fully_random = TRUE,
              !.species = IF viable THEN "SP_VIABLE" ELSE "SP_RANDOM",
              !.job = IF viable THEN "JOB_VIABLE" ELSE "JOB_RANDOM"]

\* menu_item_activated: M_VIABLE_CHAR, M_RANDOM_CHAR
PromptRandomChar ==
    /\ AtChoicePrompt
    /\ \E viable \in BOOLEAN :
        /\ ng' = clear_character(ng)
        /\ choice' = _mark_fully_random(choice, viable)
    /\ PromptReturns

_set_default_choice(c, d) == [d EXCEPT !.name = c.name, !.type = c.type]

\* M_DEFAULT_CHOICE without ng.clear_character() (line 739)
PromptDefaultChoiceKeeping ==
    /\ AtChoicePrompt
    /\ _char_defined(defaults)
    /\ ng' = ng
    /\ choice' = _set_default_choice(choice, defaults)
    /\ PromptReturns

\* menu_item_activated: M_DEFAULT_CHOICE
PromptDefaultChoice ==
    /\ AtChoicePrompt
    /\ _char_defined(defaults)
    /\ ng' = clear_character(ng)
    /\ choice' = _set_default_choice(choice, defaults)
    /\ PromptReturns

\* menu_item_activated: M_ABORT
PromptAbort ==
    /\ AtChoicePrompt
    /\ ng' = [ng EXCEPT !.species = "SP_UNKNOWN", !.job = "JOB_UNKNOWN"]
    /\ choice' = [choice EXCEPT !.species = "SP_UNKNOWN", !.job = "JOB_UNKNOWN"]
    /\ PromptReturns

\* _add_choice_menu_options: '+' is M_VIABLE when the other field is chosen
ViableOffered ==
    IF IsJobMenu THEN ng.species # "SP_UNKNOWN" ELSE ng.job # "JOB_UNKNOWN"

\* menu_item_activated: M_VIABLE
PromptViable ==
    /\ AtChoicePrompt
    /\ ViableOffered
    /\ choice' = IF IsJobMenu THEN [choice EXCEPT !.job = "JOB_VIABLE"]
                 ELSE [choice EXCEPT !.species = "SP_VIABLE"]
    /\ ng' = ng
    /\ PromptReturns

\* menu_item_activated: M_RANDOM
PromptRandom ==
    /\ AtChoicePrompt
    /\ choice' = IF IsJobMenu THEN [choice EXCEPT !.job = "JOB_RANDOM"]
                 ELSE [choice EXCEPT !.species = "SP_RANDOM"]
    /\ ng' = ng
    /\ PromptReturns

\* species_group::attach: the species buttons of the menu
SpeciesItems(n) ==
    {sp \in Range(species_order) :
        /\ ~(n.job = "JOB_UNKNOWN" /\ ~is_starting_species(sp))
        /\ ~(n.job # "JOB_UNKNOWN" /\ species_allowed(n.job, sp) = CC_BANNED)}

\* job_group::attach: the job buttons of the menu
JobItems(n) ==
    {job \in jobs_order :
        ~(n.species # "SP_UNKNOWN" /\ job_allowed(n.species, job) = CC_BANNED)}

\* a menu that shows every species and job and takes whatever is selected
PromptSelectAny ==
    /\ AtChoicePrompt
    /\ IF IsJobMenu
       THEN \E job \in jobs_order : choice' = [choice EXCEPT !.job = job]
       ELSE \E species \in Range(species_order) :
               choice' = [choice EXCEPT !.species = species]
    /\ ng' = ng
    /\ PromptReturns

\* menu_item_activated, default: a species or a job was selected
PromptSelect ==
    /\ AtChoicePrompt
    /\ IF IsJobMenu
       THEN \E job \in JobItems(ng) :
               /\ ng.species = "SP_UNKNOWN" \/ job_allowed(ng.species, job) # CC_BANNED
               /\ choice' = [choice EXCEPT !.job = job]
       ELSE \E species \in SpeciesItems(ng) :
               /\ ng.job = "JOB_UNKNOWN" \/ species_allowed(ng.job, species) # CC_BANNED
               /\ choice' = [choice EXCEPT !.species = species]
    /\ ng' = ng
    /\ PromptReturns

(***************************************************************************)
(* _reroll_random.                                                         *)
(***************************************************************************)
\* escape, 'q' or a hangup: game_ended(game_exit::abort)
RerollQuit ==
    /\ pc = "reroll"
    /\ pc' = "abort"
    /\ \E key \in {"escape", "quit"} : last' = KeyLast(key)
    /\ UNCHANGED <<ng, choice, defaults, ng_reset, site, order, exit_msg>>
    /\ UNCHANGED fixedVars

\* the rejection without line 566: the drawn character is kept
RerollRejectKeeping ==
    /\ pc = "reroll"
    /\ ng' = ng
    /\ pc' = "loop_top"
    /\ last' = KeyLast("reject")
    /\ UNCHANGED <<choice, defaults, ng_reset, site, order, exit_msg>>
    /\ UNCHANGED fixedVars

\* 'n', tab, '!' or '#': _choose_char, lines 566-567
RerollReject ==
    /\ pc = "reroll"
    /\ ng' = ng_reset
    /\ pc' = "loop_top"
    /\ last' = KeyLast("reject")
    /\ UNCHANGED <<choice, defaults, ng_reset, site, order, exit_msg>>
    /\ UNCHANGED fixedVars

\* any other key drawing the character again
RerollAcceptDrawingAgain ==
    /\ pc = "reroll"
    /\ pc' = "loop_top"
    /\ ng' = ng_reset
    /\ UNCHANGED <<choice, defaults, ng_reset, site, order, last, exit_msg>>
    /\ UNCHANGED fixedVars

\* any other key
RerollAccept ==
    /\ pc = "reroll"
    /\ pc' = "choose_weapon"
    /\ UNCHANGED <<ng, choice, defaults, ng_reset, site, order, last, exit_msg>>
    /\ UNCHANGED fixedVars

(***************************************************************************)
(* _choose_weapon and _prompt_weapon.                                      *)
(***************************************************************************)
\* the only candidate given to the resolved record alone
OnlyWeaponChoiceKept(c, weapons) == c

\* _choose_weapon, line 1788: ng_choice.weapon = weapons[0].first
OnlyWeaponChoice(c, weapons) == [c EXCEPT !.weapon = weapons[1].first]

\* the weapon stage without the early return for the Felid
NoWeaponUseUnchecked(n) == FALSE

\* _choose_weapon, lines 1776-1778: no weapon use at all
NoWeaponUse(n) == n.species = "SP_FELID"

\* _choose_weapon without the branch of weapons.size() == 1
ChooseWeaponResolvingOnly ==
    /\ pc = "choose_weapon"
    /\ LET weapons == _get_weapons(ng)
       IN  IF NoWeaponUse(ng) \/ ~job_has_weapon_choice(ng.job)
           THEN /\ pc' = "char_done"
                /\ last' = [NoLast EXCEPT !.fn = "weapon", !.path = "none_needed"]
                /\ UNCHANGED <<ng, choice, exit_msg>>
           ELSE IF Len(weapons) = 0
           THEN /\ pc' = "fatal"
                /\ exit_msg' = "ASSERT(!weapons.empty())"
                /\ last' = NoLast
                /\ UNCHANGED <<ng, choice>>
           ELSE \E r \in _resolve_weapon(ng, choice, weapons) :
                /\ ng' = r.ng
                /\ pc' = (IF r.ng.weapon = "WPN_UNKNOWN" THEN "prompt_weapon"
                          ELSE "char_done")
                /\ last' = [fn |-> "weapon", req |-> r.req, path |-> r.path,
                            count |-> r.count, other |-> "first"]
                /\ UNCHANGED <<choice, exit_msg>>
    /\ UNCHANGED <<defaults, ng_reset, site, order>>
    /\ UNCHANGED fixedVars

\* _choose_weapon, lines 1777-1798: up to the weapon menu
ChooseWeapon ==
    /\ pc = "choose_weapon"
    /\ LET weapons == _get_weapons(ng)
       IN  IF NoWeaponUse(ng) \/ ~job_has_weapon_choice(ng.job)
           THEN /\ pc' = "char_done"
                /\ last' = [NoLast EXCEPT !.fn = "weapon", !.path = "none_needed"]
                /\ UNCHANGED <<ng, choice, exit_msg>>
           ELSE IF Len(weapons) = 0
           THEN /\ pc' = "fatal"
                /\ exit_msg' = "ASSERT(!weapons.empty())"
                /\ last' = NoLast
                /\ UNCHANGED <<ng, choice>>
           ELSE IF Len(weapons) = 1
           THEN /\ ng' = [ng EXCEPT !.weapon = weapons[1].first]
                /\ choice' = OnlyWeaponChoice(choice, weapons)
                /\ pc' = "char_done"
                /\ last' = [NoLast EXCEPT !.fn = "weapon", !.path = "single"]
                /\ UNCHANGED exit_msg
           ELSE \E r \in _resolve_weapon(ng, choice, weapons) :
                /\ ng' = r.ng
                /\ pc' = (IF r.ng.weapon = "WPN_UNKNOWN" THEN "prompt_weapon"
                          ELSE "char_done")
                /\ last' = [fn |-> "weapon", req |-> r.req, path |-> r.path,
                            count |-> r.count, other |-> "first"]
                /\ UNCHANGED <<choice, exit_msg>>
    /\ UNCHANGED <<defaults, ng_reset, site, order>>
    /\ UNCHANGED fixedVars

\* _prompt_weapon: 'X' or Ctrl-Q, then end(0)
WeaponEndGame ==
    /\ pc = "prompt_weapon"
    /\ pc' = "exit"
    /\ last' = KeyLast("quit")
    /\ UNCHANGED <<ng, choice, defaults, ng_reset, site, order, exit_msg>>
    /\ UNCHANGED fixedVars

\* the weapon menu left without a weapon taken as a cancel that ends the game
WeaponAbortEnding ==
    /\ pc = "prompt_weapon"
    /\ pc' = "abort"
    /\ \E key \in {"escape", "back"} : last' = KeyLast(key)
    /\ UNCHANGED <<ng, choice, defaults, ng_reset, site, order, exit_msg>>
    /\ UNCHANGED fixedVars

\* the weapon menu backed out of, with the request left as it was
WeaponAbortKeepingRequest ==
    /\ pc = "prompt_weapon"
    /\ defaults' = choice
    /\ ng' = ng_reset
    /\ choice' = choice
    /\ pc' = "loop_top"
    /\ \E key \in {"escape", "back"} : last' = KeyLast(key)
    /\ UNCHANGED <<ng_reset, site, order, exit_msg>>
    /\ request0' = ng_reset
    /\ prompted' = prompted
    /\ UNCHANGED inputVars

\* _prompt_weapon returns false (M_ABORT, space, escape);
\* _choose_char, lines 577-579
WeaponAbort ==
    /\ pc = "prompt_weapon"
    /\ defaults' = choice
    /\ ng' = ng_reset
    /\ choice' = ng_reset
    /\ pc' = "loop_top"
    /\ \E key \in {"escape", "back"} : last' = KeyLast(key)
    /\ UNCHANGED <<ng_reset, site, order, exit_msg>>
    /\ request0' = ng_reset
    /\ prompted' = prompted
    /\ UNCHANGED inputVars

\* the values the weapon menu writes to ng_choice.weapon
WeaponAnswers(weapons) ==
    LET defweapon == _fixup_weapon(defaults.weapon, weapons)
    IN  {weapons[i].first : i \in 1..Len(weapons)}
        \cup {"WPN_VIABLE", "WPN_RANDOM"}
        \cup (IF defweapon # "WPN_UNKNOWN" THEN {defweapon} ELSE {})

\* _prompt_weapon returns true: a weapon, M_VIABLE, WPN_RANDOM or M_DEFAULT_CHOICE
WeaponSelect ==
    /\ pc = "prompt_weapon"
    /\ \E wpn \in WeaponAnswers(_get_weapons(ng)) :
        choice' = [choice EXCEPT !.weapon = wpn]
    /\ pc' = "resolve_weapon"
    /\ last' = NoLast
    /\ UNCHANGED <<ng, defaults, ng_reset, site, order, exit_msg>>
    /\ UNCHANGED fixedVars

\* _choose_weapon, lines 1797-1800
ResolveWeapon ==
    /\ pc = "resolve_weapon"
    /\ \E r \in _resolve_weapon(ng, choice, _get_weapons(ng)) :
        /\ ng' = r.ng
        /\ last' = [fn |-> "weapon", req |-> r.req, path |-> r.path,
                    count |-> r.count, other |-> "prompted"]
    /\ pc' = "char_done"
    /\ UNCHANGED <<choice, defaults, ng_reset, site, order, exit_msg>>
    /\ UNCHANGED fixedVars

(***************************************************************************)
(* choose_game after _choose_char.                                         *)
(***************************************************************************)
\* choose_game, lines 713-731
ChooseGameReturn ==
    /\ pc = "char_done"
    /\ ng' = [ng EXCEPT !.name = choice.name, !.type = choice.type]
    /\ IF choice.name = ""
       THEN pc' = "prompt_name" /\ exit_msg' = exit_msg
       ELSE IF job_allowed(ng.species, ng.job) = CC_BANNED
       THEN pc' = "fatal" /\ exit_msg' = "ASSERT(job_allowed(ng.species, ng.job))"
       ELSE pc' = "done" /\ exit_msg' = exit_msg
    /\ last' = NoLast
    /\ UNCHANGED <<choice, defaults, ng_reset, site, order>>
    /\ UNCHANGED fixedVars

\* _choose_name: a good name is entered; choose_game, lines 722-731
NameEntered ==
    /\ pc = "prompt_name"
    /\ \E name \in {"Bob"} :
        /\ choice' = [choice EXCEPT !.name = name]
        /\ ng' = [ng EXCEPT !.name = name]
    /\ IF job_allowed(ng.species, ng.job) = CC_BANNED
       THEN pc' = "fatal" /\ exit_msg' = "ASSERT(job_allowed(ng.species, ng.job))"
       ELSE pc' = "done" /\ exit_msg' = exit_msg
    /\ UNCHANGED <<defaults, ng_reset, site, order, last>>
    /\ UNCHANGED fixedVars

\* _choose_name: escape (or a hangup), then game_ended(game_exit::abort)
NameCancel ==
    /\ pc = "prompt_name"
    /\ pc' = "abort"
    /\ UNCHANGED <<ng, choice, defaults, ng_reset, site, order, last, exit_msg>>
    /\ UNCHANGED fixedVars

(***************************************************************************)
(* _choose_gamemode_map.                                                   *)
(***************************************************************************)
\* the game_type enum, for the comparison of line 2064
game_type_value(type) ==
    CASE type = "GAME_TYPE_UNSPECIFIED" -> 0
      [] type = "GAME_TYPE_NORMAL" -> 1
      [] type = "GAME_TYPE_TUTORIAL" -> 2
      [] type = "GAME_TYPE_ARENA" -> 3
      [] type = "GAME_TYPE_SPRINT" -> 4
      [] type = "GAME_TYPE_HINTS" -> 5

bool_value(b) == IF b THEN 1 ELSE 0

\* _resolve_gamemode_map taking the first map instead of drawing one
_resolve_gamemode_map_first(n, c, ms) ==
    IF c.map = "random" \/ c.map = ""
    THEN {[n EXCEPT !.map = ms[1]]}
    ELSE {[n EXCEPT !.map = c.map]}

\* _resolve_gamemode_map: the maps random2 can pick, or the requested one
_resolve_gamemode_map(n, c, ms) ==
    IF c.map = "random" \/ c.map = ""
    THEN {[n EXCEPT !.map = ms[i]] : i \in 1..Len(ms)}
    ELSE {[n EXCEPT !.map = c.map]}

\* _choose_gamemode_map looking for maps only when none is requested
ChooseGamemodeMapLateCheck ==
    /\ pc = "choose_map"
    /\ LET is_sprint == choice.type = "GAME_TYPE_SPRINT"
       IN  IF choice.map # "" /\ choice.map # "random"
           THEN /\ ng' = [ng EXCEPT !.map = choice.map]
                /\ pc' = "choose_char"
                /\ UNCHANGED <<choice, exit_msg>>
           ELSE IF Len(maps) = 0
           THEN /\ pc' = "fatal"
                /\ exit_msg' = "No maps found."
                /\ UNCHANGED <<ng, choice>>
           ELSE IF choice.map = "" /\ Len(maps) > 1
           THEN /\ pc' = "prompt_map"
                /\ UNCHANGED <<ng, choice, exit_msg>>
           ELSE /\ choice' = IF choice.map # "" THEN choice
                             ELSE [choice EXCEPT !.map = maps[1]]
                /\ ng' \in _resolve_gamemode_map(ng, choice', maps)
                /\ pc' = "choose_char"
                /\ UNCHANGED exit_msg
    /\ UNCHANGED <<defaults, ng_reset, site, order, last>>
    /\ UNCHANGED fixedVars

\* _choose_gamemode_map showing the menu for a single map too
ChooseGamemodeMapAlwaysAsking ==
    /\ pc = "choose_map"
    /\ IF Len(maps) = 0
       THEN /\ pc' = "fatal"
            /\ exit_msg' = "No maps found."
            /\ UNCHANGED <<ng, choice>>
       ELSE IF choice.map = ""
       THEN /\ pc' = "prompt_map"
            /\ UNCHANGED <<ng, choice, exit_msg>>
       ELSE /\ ng' \in _resolve_gamemode_map(ng, choice, maps)
            /\ pc' = "choose_char"
            /\ UNCHANGED <<choice, exit_msg>>
    /\ UNCHANGED <<defaults, ng_reset, site, order, last>>
    /\ UNCHANGED fixedVars

\* _choose_gamemode_map, lines 2052-2074: up to the map menu
ChooseGamemodeMap ==
    /\ pc = "choose_map"
    /\ LET is_sprint == choice.type = "GAME_TYPE_SPRINT"
       IN  IF Len(maps) = 0
           THEN /\ pc' = "fatal"
                /\ exit_msg' = "No maps found."
                /\ UNCHANGED <<ng, choice>>
           ELSE IF choice.map = "" /\ ~(is_sprint /\ game_type_value(choice.type)
                                            = bool_value(sprint_map # ""))
                   /\ Len(maps) > 1
           THEN /\ pc' = "prompt_map"
                /\ UNCHANGED <<ng, choice, exit_msg>>
           ELSE /\ choice' =
                     IF choice.map # "" THEN choice
                     ELSE IF is_sprint /\ game_type_value(choice.type)
                                          = bool_value(sprint_map # "")
                     THEN [choice EXCEPT !.map = sprint_map]
                     ELSE [choice EXCEPT !.map = maps[1]]
                /\ ng' \in _resolve_gamemode_map(ng, choice', maps)
                /\ pc' = "choose_char"
                /\ UNCHANGED exit_msg
    /\ UNCHANGED <<defaults, ng_reset, site, order, last>>
    /\ UNCHANGED fixedVars

\* _prompt_gamemode_map: 'X' or Ctrl-Q, then end(0)
MapEndGame ==
    /\ pc = "prompt_map"
    /\ pc' = "exit"
    /\ last' = KeyLast("quit")
    /\ UNCHANGED <<ng, choice, defaults, ng_reset, site, order, exit_msg>>
    /\ UNCHANGED fixedVars

\* _prompt_gamemode_map: escape (or a hangup), then game_ended(game_exit::abort)
MapCancel ==
    /\ pc = "prompt_map"
    /\ pc' = "abort"
    /\ last' = KeyLast("escape")
    /\ UNCHANGED <<ng, choice, defaults, ng_reset, site, order, exit_msg>>
    /\ UNCHANGED fixedVars

\* _construct_gamemode_map_menu: the Tab entry is offered
MapDefaultOffered ==
    /\ choice.type = "GAME_TYPE_SPRINT"
    /\ defaults.map # ""
    /\ defaults.type = "GAME_TYPE_SPRINT"
    /\ _char_defined(defaults)

\* what the map menu (a button or the space key) leaves in ng and ng_choice
MapAnswers ==
    {[ng |-> ng, choice |-> [choice EXCEPT !.map = maps[i]]] : i \in 1..Len(maps)}
    \cup {[ng |-> ng, choice |-> choice]}
    \cup (IF choice.type # "GAME_TYPE_TUTORIAL"
          THEN {[ng |-> ng, choice |-> [choice EXCEPT !.map = ""]]}
          ELSE {})
    \cup (IF MapDefaultOffered
          THEN {[ng |-> clear_character(ng),
                 choice |-> _set_default_choice(choice, defaults)]}
          ELSE {})

\* _prompt_gamemode_map returns; _choose_gamemode_map, line 2074
MapSelect ==
    /\ pc = "prompt_map"
    /\ \E a \in MapAnswers :
        /\ choice' = a.choice
        /\ ng' \in _resolve_gamemode_map(a.ng, a.choice, maps)
    /\ pc' = "choose_char"
    /\ UNCHANGED <<defaults, ng_reset, site, order, last, exit_msg>>
    /\ UNCHANGED fixedVars

Next ==
    \/ ChooseGame
    \/ ChooseGamemodeMap
    \/ MapEndGame
    \/ MapCancel
    \/ MapSelect
    \/ ChooseChar
    \/ LoopTop
    \/ ResolveFirst
    \/ ResolveSecond
    \/ FinalCheck
    \/ PromptEndGame
    \/ PromptCancel
    \/ PromptBksp
    \/ PromptRandomChar
    \/ PromptDefaultChoice
    \/ PromptAbort
    \/ PromptViable
    \/ PromptRandom
    \/ PromptSelect
    \/ RerollQuit
    \/ RerollReject
    \/ RerollAccept
    \/ ChooseWeapon
    \/ WeaponEndGame
    \/ WeaponAbort
    \/ WeaponSelect
    \/ ResolveWeapon
    \/ ChooseGameReturn
    \/ NameEntered
    \/ NameCancel

Spec == Init /\ [][Next]_vars

(***************************************************************************)
(* The streaming selection on its own: the loop of lines 239-246 (also     *)
(* 263-270, 296-304, 323-332 and 1746-1753) over a stream of candidates    *)
(* 1..Len(stream), where stream[i] tells whether the predicate holds of    *)
(* candidate i.                                                            *)
(***************************************************************************)
Streams == UNION {[1..n -> BOOLEAN] : n \in 0..MaxStream}

\* the stream as the loop sees it
Candidates(s) == [i \in 1..Len(s) |-> [val |-> i, ok |-> s[i]]]

InitSel ==
    /\ stream \in Streams
    /\ pos = 1
    /\ good_choices = 0
    /\ selected = 0
    /\ draws = <<>>
    /\ ng = newgame_def
    /\ choice = newgame_def
    /\ defaults = newgame_def
    /\ ng_reset = newgame_def
    /\ request0 = newgame_def
    /\ prompted = FALSE
    /\ pc = "select"
    /\ site = 0
    /\ order = "none"
    /\ last = NoLast
    /\ exit_msg = NoMsg
    /\ maps = <<>>
    /\ sprint_map = ""

\* one iteration of the loop; r is what random2 returns if it is called
SelectCandidate ==
    /\ pc = "select"
    /\ pos <= Len(stream)
    /\ \E r \in 0..good_choices :
        LET st == SelectStep([good_choices |-> good_choices, sel |-> selected],
                             Candidates(stream)[pos], r)
        IN  /\ good_choices' = st.good_choices
            /\ selected' = st.sel
            /\ draws' = IF stream[pos] THEN Append(draws, r) ELSE draws
    /\ pos' = pos + 1
    /\ UNCHANGED <<stream, ng, choice, defaults, ng_reset, request0, prompted, pc, site, order, last,
                   exit_msg, maps, sprint_map>>

NextSel == SelectCandidate

SpecSel == InitSel /\ [][NextSel]_vars

(***************************************************************************)
(* Properties.                                                             *)
(***************************************************************************)
\* _choose_char has returned true
Returned == pc \in {"char_done", "prompt_name", "done"}

\* C1: whenever the pipeline has returned normally, the resolved pair of
\* species and job is not CC_BANNED, so the ASSERT of choose_game never fires
C1_ReturnedPairNotBanned ==
    /\ Returned => job_allowed(ng.species, ng.job) # CC_BANNED
    /\ exit_msg # "ASSERT(job_allowed(ng.species, ng.job))"

\* a random species was asked for with the Hunter, and the game starts
C1_Witness ==
    /\ pc = "done"
    /\ choice.species = "SP_RANDOM"
    /\ choice.job = "JOB_HUNTER"
    /\ ng.job = "JOB_HUNTER"

\* C2: on a normal return with a species other than Felid and a job that
\* has a weapon choice, the weapon is concrete and one of the candidates
\* of the final pair
C2_WeaponConcreteAndListed ==
    (Returned /\ ng.species # "SP_FELID" /\ job_has_weapon_choice(ng.job))
        => /\ ng.weapon \notin WeaponPlaceholders
           /\ \E i \in 1..Len(_get_weapons(ng)) : _get_weapons(ng)[i].first = ng.weapon

\* the candidates of a stream that satisfy the predicate
Satisfying(s) == {i \in 1..Len(s) : s[i]}

\* the outcomes of the one-in-k draws that leave candidate c selected
Wins(s, c) ==
    {d \in DrawSeqs(Cardinality(Satisfying(s))) :
        StreamSelect(Candidates(s), d, 0).sel = c}

\* C3: the streaming selection only selects candidates that satisfy the
\* predicate, and each of the M satisfying candidates is the final selection
\* in exactly 1/M of the outcomes of the one-in-k draws
C3_UniformSelection ==
    LET M == Cardinality(Satisfying(stream))
    IN  /\ selected # 0 => selected \in Satisfying(stream)
        /\ pos > Len(stream) =>
              /\ Len(draws) = M
              /\ selected = StreamSelect(Candidates(stream), draws, 0).sel
              /\ M # 0 => selected # 0
        /\ \A c \in Satisfying(stream) :
              Cardinality(Wins(stream, c)) * M = Cardinality(DrawSeqs(M))

\* the loop has run over a stream with three satisfying candidates and
\* the last one is selected
C3_Witness ==
    /\ pos > Len(stream)
    /\ stream = <<FALSE, TRUE, TRUE, TRUE>>
    /\ selected = 4

\* the species that satisfy the predicate against a job
GoodSpecies(job, good) ==
    {sp \in Range(species_order) : is_good_combination(sp, job, FALSE, good)}

\* the jobs that satisfy the predicate against a species
GoodJobs(species, good) ==
    {job \in Range(all_jobs) : is_good_combination(species, job, TRUE, good)}

\* the weapons of the list that are CC_UNRESTRICTED
GoodWeapons(weapons) ==
    {weapons[i].first : i \in {k \in 1..Len(weapons) : weapons[k].second = CC_UNRESTRICTED}}

\* C4: when no candidate satisfies the predicate the selection assigns
\* nothing and counts nothing; a RANDOM draw that counted nothing ends the
\* process with the field still UNKNOWN, and a VIABLE draw went on to the
\* RANDOM pool only if it counted nothing
C4_NoCandidateNoAssignment ==
    /\ \A good \in BOOLEAN :
          pc \in {"resolve_first", "resolve_second"} =>
          /\ (_is_random_species(choice.species) /\ GoodSpecies(ng.job, good) = {}) =>
                \A d \in DrawSeqs(Len(species_order)) :
                    StreamSelect(SpeciesStream(ng.job, good), d, ng.species)
                        = [good_choices |-> 0, sel |-> ng.species]
          /\ (_is_random_job(choice.job) /\ GoodJobs(ng.species, good) = {}) =>
                \A d \in DrawSeqs(NUM_JOBS) :
                    StreamSelect(JobStream(ng.species, good), d, ng.job)
                        = [good_choices |-> 0, sel |-> ng.job]
    /\ (last.fn = "species" /\ last.path = "legal" /\ last.count = 0)
          => /\ ng.species = "SP_UNKNOWN"
             /\ pc = "fatal"
             /\ exit_msg = "Failed to find legal species."
    /\ (last.fn = "job" /\ last.path = "legal" /\ last.count = 0)
          => /\ ng.job = "JOB_UNKNOWN"
             /\ pc = "fatal"
             /\ exit_msg = "Failed to find legal background."
    /\ (last.fn = "species" /\ last.req = "SP_VIABLE" /\ last.path \in {"any", "legal"})
          => GoodSpecies(last.other, TRUE) = {}
    /\ (last.fn = "job" /\ last.req = "JOB_VIABLE" /\ last.path \in {"any", "legal"})
          => GoodJobs(last.other, TRUE) = {}
    /\ (last.fn = "weapon" /\ last.req = "WPN_VIABLE" /\ last.path = "any")
          => GoodWeapons(_get_weapons(ng)) = {}

\* a viable species was asked for against a job no species may take: the
\* viable draw and then the random draw count nothing
C4_Witness ==
    /\ pc = "fatal"
    /\ last.fn = "species"
    /\ last.req = "SP_VIABLE"
    /\ last.path = "legal"
    /\ last.count = 0
    /\ ng.species = "SP_UNKNOWN"

\* C5: with a viable job and a species that is not viable the species is
\* resolved first, with a viable species and a job that is not viable the
\* job is resolved first, and otherwise both orders can be taken
C5_ResolveOrder ==
    /\ (order # "none" /\ choice.job = "JOB_VIABLE" /\ choice.species # "SP_VIABLE")
          => order = "species"
    /\ (order # "none" /\ choice.species = "SP_VIABLE" /\ choice.job # "JOB_VIABLE")
          => order = "job"
    /\ (pc = "resolve_first"
        /\ ((choice.species = "SP_VIABLE") <=> (choice.job = "JOB_VIABLE")))
          => ResolveOrders(choice) = {"species", "job"}

\* the job was resolved first for a viable species and a random job
C5_Witness ==
    /\ pc = "resolve_second"
    /\ order = "job"
    /\ choice.species = "SP_VIABLE"
    /\ choice.job = "JOB_RANDOM"
    /\ ng.species = "SP_UNKNOWN"

\* exactly one of the two requests is the viable placeholder
ExactlyOneViable == (choice.species = "SP_VIABLE") # (choice.job = "JOB_VIABLE")

\* the field whose request is the viable placeholder, if the species is not
ViableField == IF choice.species = "SP_VIABLE" THEN "species" ELSE "job"

\* C6: when exactly one of the two requests is the viable placeholder, the
\* field that is not viable is resolved first and the viable field last
C6_ViableFieldLast ==
    (ExactlyOneViable /\ last.fn \in {"species", "job"})
        => /\ pc = "resolve_second" => last.fn # ViableField
           /\ pc \notin {"resolve_second", "fatal"} => last.fn = ViableField

\* both fields are resolved, the viable job after the species
C6_Witness ==
    /\ pc = "final_check"
    /\ ExactlyOneViable
    /\ last.fn = "job"
    /\ last.req = "JOB_VIABLE"
    /\ last.path = "viable"

\* C6 as stated: when exactly one of the two requests is the viable
\* placeholder, the viable field is resolved first and the other field last
C6_NonViableFieldLast ==
    (ExactlyOneViable /\ last.fn \in {"species", "job"})
        => /\ pc = "resolve_second" => last.fn = ViableField
           /\ pc \notin {"resolve_second", "fatal"} => last.fn # ViableField

\* C7: a random species resolved against a concrete resolved job is never
\* banned with that job, and every species that is not banned with it can be
\* drawn; the same for a random job against a concrete resolved species
C7_RandomAgainstConcrete ==
    /\ (last.fn = "species" /\ last.req = "SP_RANDOM" /\ last.other # "JOB_UNKNOWN"
        /\ last.path # "kept" /\ pc # "fatal")
          => /\ ng.job = last.other
             /\ species_allowed(ng.job, ng.species) # CC_BANNED
    /\ (last.fn = "job" /\ last.req = "JOB_RANDOM" /\ last.other # "SP_UNKNOWN"
        /\ last.path # "kept" /\ pc # "fatal")
          => /\ ng.species = last.other
             /\ job_allowed(ng.species, ng.job) # CC_BANNED
    /\ (pc \in {"resolve_first", "resolve_second"} /\ choice.species = "SP_RANDOM"
        /\ ng.species = "SP_UNKNOWN" /\ ng.job # "JOB_UNKNOWN")
          => LET legal == {sp \in Range(species_order) :
                              species_allowed(ng.job, sp) # CC_BANNED}
             IN  legal # {} =>
                    {r.ng.species : r \in _resolve_species(ng, choice)} = legal
    /\ (pc \in {"resolve_first", "resolve_second"} /\ choice.job = "JOB_RANDOM"
        /\ ng.job = "JOB_UNKNOWN" /\ ng.species # "SP_UNKNOWN")
          => LET legal == {job \in Range(all_jobs) :
                              job_allowed(ng.species, job) # CC_BANNED}
             IN  legal # {} =>
                    {r.ng.job : r \in _resolve_job(ng, choice)} = legal

\* a random species was drawn against the Hunter
C7_Witness ==
    /\ last.fn = "species"
    /\ last.req = "SP_RANDOM"
    /\ last.other = "JOB_HUNTER"
    /\ last.path = "legal"
    /\ ng.species = "SP_KOBOLD"

\* the concrete values asked for are starting species and starting jobs
StartingRequest ==
    /\ choice.species \in SpeciesPlaceholders \/ is_starting_species(choice.species)
    /\ choice.job \in JobPlaceholders \/ is_starting_job(choice.job)

\* C8: for requests whose concrete values are starting ones, the process
\* ends with 'Incompatible species and background' only when both the species
\* and the job were asked for as concrete values, and a random species with a
\* concrete job, or a random job with a concrete species, never reaches the
\* last check as a banned pair
C8_IncompatibleOnlyFromConcrete ==
    StartingRequest =>
        /\ exit_msg = "Incompatible species and background selected."
              => /\ choice.species \notin SpeciesPlaceholders
                 /\ choice.job \notin JobPlaceholders
        /\ (pc = "final_check"
            /\ \/ choice.species = "SP_RANDOM" /\ choice.job \notin JobPlaceholders
               \/ choice.job = "JOB_RANDOM" /\ choice.species \notin SpeciesPlaceholders)
              => job_allowed(ng.species, ng.job) # CC_BANNED

\* C9: a viable draw of a species, a job or a weapon gives a value that
\* is CC_UNRESTRICTED whenever there is one, and when there is none it does
\* what the random draw does, without an error of its own
C9_ViableDraw ==
    /\ (last.fn = "species" /\ last.req = "SP_VIABLE" /\ last.path # "kept"
        /\ GoodSpecies(last.other, TRUE) # {})
          => /\ last.path = "viable"
             /\ species_allowed(last.other, ng.species) = CC_UNRESTRICTED
    /\ (last.fn = "job" /\ last.req = "JOB_VIABLE" /\ last.path # "kept"
        /\ GoodJobs(last.other, TRUE) # {})
          => /\ last.path = "viable"
             /\ job_allowed(last.other, ng.job) = CC_UNRESTRICTED
    /\ (last.fn = "weapon" /\ last.req = "WPN_VIABLE"
        /\ GoodWeapons(_get_weapons(ng)) # {})
          => /\ last.path = "viable"
             /\ ng.weapon \in GoodWeapons(_get_weapons(ng))
    /\ (pc \in {"resolve_first", "resolve_second"} /\ choice.species = "SP_VIABLE"
        /\ ng.species = "SP_UNKNOWN" /\ GoodSpecies(ng.job, TRUE) = {})
          => _resolve_species_viable(ng) = _resolve_species_random(ng)
    /\ (pc \in {"resolve_first", "resolve_second"} /\ choice.job = "JOB_VIABLE"
        /\ ng.job = "JOB_UNKNOWN" /\ GoodJobs(ng.species, TRUE) = {})
          => _resolve_job_viable(ng) = _resolve_job_random(ng)
    /\ (pc \in {"choose_weapon", "resolve_weapon"}
        /\ "WPN_VIABLE" \in SwitchWeapons(choice)
        /\ Len(_get_weapons(ng)) > 1 /\ GoodWeapons(_get_weapons(ng)) = {})
          => _resolve_weapon_viable(ng, _get_weapons(ng))
                = _resolve_weapon_random(ng, _get_weapons(ng))

\* a viable job was drawn for the Felid, who has one
C9_Witness ==
    /\ last.fn = "job"
    /\ last.req = "JOB_VIABLE"
    /\ last.other = "SP_FELID"
    /\ last.path = "viable"
    /\ ng.job = "JOB_WIZARD"

\* C10: a random draw of a species (asked for, or reached from a viable
\* draw) against a concrete job that bans every species ends the process
\* with 'Failed to find legal species.', and the same for a job with 'Failed
\* to find legal background.'; nothing runs after it
C10_NoLegalChoiceIsFatal ==
    /\ (last.fn = "species" /\ last.req \in {"SP_RANDOM", "SP_VIABLE"}
        /\ last.path # "kept" /\ last.other # "JOB_UNKNOWN"
        /\ GoodSpecies(last.other, FALSE) = {})
          => /\ pc = "fatal"
             /\ exit_msg = "Failed to find legal species."
             /\ ng.species = "SP_UNKNOWN"
    /\ (last.fn = "job" /\ last.req \in {"JOB_RANDOM", "JOB_VIABLE"}
        /\ last.path # "kept" /\ last.other # "SP_UNKNOWN"
        /\ GoodJobs(last.other, FALSE) = {})
          => /\ pc = "fatal"
             /\ exit_msg = "Failed to find legal background."
             /\ ng.job = "JOB_UNKNOWN"
    /\ pc = "fatal" => ~ENABLED Next

\* a random job was asked for with a species that is not a starting one
C10_Witness ==
    /\ pc = "fatal"
    /\ exit_msg = "Failed to find legal background."
    /\ last.fn = "job"
    /\ last.req = "JOB_RANDOM"
    /\ last.other = "SP_RED_DRACONIAN"

\* a request of the normal game whose species allow-list holds only
\* species that are banned with its one concrete job
OnlyBannedSpeciesAllowed ==
    /\ choice.type = "GAME_TYPE_NORMAL"
    /\ Len(choice.allowed_combos) = 0
    /\ Len(choice.allowed_jobs) = 0
    /\ Len(choice.allowed_species) # 0
    /\ choice.job \notin JobPlaceholders
    /\ \A sp \in Range(choice.allowed_species) :
          /\ sp \notin SpeciesPlaceholders
          /\ species_allowed(choice.job, sp) = CC_BANNED

\* C11: with a species allow-list that holds only species banned with the
\* fixed concrete job, every run goes straight to the fatal error of the
\* last check: no prompt is shown, no character is returned, and every
\* step before the error has a successor
C11_OnlyBannedAllowedIsFatal ==
    OnlyBannedSpeciesAllowed
        => /\ pc \in {"choose_game", "choose_char", "loop_top", "resolve_first",
                      "resolve_second", "final_check", "fatal"}
           /\ pc = "fatal"
                 => exit_msg = "Incompatible species and background selected."
           /\ pc # "fatal" => ENABLED Next
           /\ pc \in {"resolve_second", "final_check", "fatal"}
                 => choice.species \in Range(choice.allowed_species)

\* the Felid of the allow-list was taken with the Hunter and the process
\* has ended
C11_Witness ==
    /\ OnlyBannedSpeciesAllowed
    /\ pc = "fatal"
    /\ choice.allowed_species = <<"SP_FELID", "SP_RED_DRACONIAN">>
    /\ choice.species = "SP_FELID"
    /\ ng.job = "JOB_HUNTER"

\* the pairs of species and job the head of the loop can put into the
\* request (lines 489-553)
AdmittedPairs ==
    IF Len(choice.allowed_combos) # 0
    THEN {<<ParseCombo(choice, choice.allowed_combos[i]).choice.species,
            ParseCombo(choice, choice.allowed_combos[i]).choice.job>> :
             i \in {k \in 1..Len(choice.allowed_combos) :
                       ~ParseCombo(choice, choice.allowed_combos[k]).thrown}}
    ELSE AllowedPick(choice.allowed_species, choice.species)
            \X AllowedPick(choice.allowed_jobs, choice.job)

\* C12: when the allow-lists or combo strings admit only concrete pairs and
\* at least one of them is not banned, no run ends with a fatal error about
\* the species or the job
C12_FatalOnlyWithoutLegalCombination ==
    (/\ \A p \in AdmittedPairs :
            p[1] \notin SpeciesPlaceholders /\ p[2] \notin JobPlaceholders
     /\ \E p \in AdmittedPairs : job_allowed(p[1], p[2]) # CC_BANNED)
        => exit_msg \notin {"Incompatible species and background selected.",
                            "Failed to find legal species.",
                            "Failed to find legal background."}

\* the resolved species and job are concrete and banned with each other
BannedPairResolved ==
    /\ ng.species \notin SpeciesPlaceholders
    /\ ng.job \notin JobPlaceholders
    /\ job_allowed(ng.species, ng.job) = CC_BANNED

\* the weapons of the candidate list
WeaponsOf(weapons) == {weapons[i].first : i \in 1..Len(weapons)}

C14_ResolveKeepsConcreteField ==
    /\ ng.species # "SP_UNKNOWN"
          => \A req \in SpeciesRequests :
                LET results == _resolve_species(ng, [choice EXCEPT !.species = req])
                IN  /\ results # {}
                    /\ \A r \in results : r.ng = ng /\ r.msg = NoMsg
    /\ ng.job # "JOB_UNKNOWN"
          => \A req \in JobRequests :
                LET results == _resolve_job(ng, [choice EXCEPT !.job = req])
                IN  /\ results # {}
                    /\ \A r \in results : r.ng = ng /\ r.msg = NoMsg
    /\ (last.fn = "species" /\ last.path = "kept")
          => ng.species \notin SpeciesPlaceholders /\ pc # "fatal"
    /\ (last.fn = "job" /\ last.path = "kept")
          => ng.job \notin JobPlaceholders /\ pc # "fatal"

\* _resolve_species has run again on the species drawn for a random
\* request, while the job was asked for at the menu
C14_Witness ==
    /\ last.fn = "species"
    /\ last.path = "kept"
    /\ last.req = "SP_RANDOM"
    /\ ng.species = "SP_KOBOLD"
    /\ site = 403

\* a step that leaves every set field of the resolved record as it is
FieldsKept ==
    /\ ng.species # "SP_UNKNOWN" => ng'.species = ng.species
    /\ ng.job # "JOB_UNKNOWN" => ng'.job = ng.job
    /\ ng.weapon # "WPN_UNKNOWN" => ng'.weapon = ng.weapon

\* a step that takes the resolved record back to its state before the
\* resolution: a menu item that clears the character, the rejection of a
\* rerolled character, the weapon menu left without a weapon
ResetStep ==
    \/ /\ AtChoicePrompt
       /\ ng' = clear_character(ng)
    \/ /\ pc = "reroll"
       /\ pc' = "loop_top"
       /\ ng' = ng_reset
    \/ /\ pc = "prompt_weapon"
       /\ pc' = "loop_top"
       /\ ng' = ng_reset

\* C15: a species, job or weapon that is set in the resolved record is
\* changed by no step of the resolution; only the steps that start the
\* choice again (the menu items that clear the character, the rejection of
\* a reroll, the weapon menu left without a weapon) change it, and they
\* take the whole record back to its state before the resolution
C15_OverwrittenOnlyByReset == [][FieldsKept \/ ResetStep]_vars

\* the weapon menu was left for the Human Fighter: the record is back to
\* unknown and the choice is kept as the new default
C15_Witness ==
    /\ pc = "loop_top"
    /\ defaults.species = "SP_HUMAN"
    /\ defaults.job = "JOB_FIGHTER"
    /\ ng.species = "SP_UNKNOWN"
    /\ ng.job = "JOB_UNKNOWN"

\* C15 as stated: no step of the pipeline changes a species, job or weapon
\* that is set in the resolved record
C15_NeverOverwritten == [][FieldsKept]_vars

\* the steps of the resolution: the head of the loop, the species and the
\* job resolution with the last check, the weapon stage
ResolutionStep ==
    pc \in {"loop_top", "resolve_first", "resolve_second", "final_check",
            "choose_weapon", "resolve_weapon"}

\* a step that leaves the species, job and weapon of the request as they are
RequestKept ==
    /\ choice'.species = choice.species
    /\ choice'.job = choice.job
    /\ choice'.weapon = choice.weapon

\* the weapon stage has exactly one candidate to give
OnlyOneWeapon ==
    /\ ng.species # "SP_FELID"
    /\ job_has_weapon_choice(ng.job)
    /\ Len(_get_weapons(ng)) = 1

\* C16: the species and the job resolution, the last check and the weapon
\* resolution leave the request as it is; the weapon stage with exactly one
\* candidate writes that candidate into the request as well as into the
\* resolved record; the head of the loop writes into the request what it
\* draws from the allow-lists or from a combo, and keeps a field that has
\* no allow-list
C16_RequestWrittenByOnlyWeaponAndLoopHead ==
    [][/\ pc \in {"resolve_first", "resolve_second", "final_check",
                  "resolve_weapon"} => choice' = choice
       /\ pc = "choose_weapon" /\ ~OnlyOneWeapon => choice' = choice
       /\ pc = "choose_weapon" /\ OnlyOneWeapon =>
            /\ choice' = [choice EXCEPT !.weapon = _get_weapons(ng)[1].first]
            /\ ng'.weapon = choice'.weapon
       /\ pc = "loop_top" /\ Len(choice.allowed_combos) # 0 =>
            \E i \in 1..Len(choice.allowed_combos) :
                choice' = ParseCombo(choice, choice.allowed_combos[i]).choice
       /\ pc = "loop_top" /\ Len(choice.allowed_combos) = 0 =>
            /\ choice'.species \in AllowedPick(choice.allowed_species, choice.species)
            /\ choice'.job \in AllowedPick(choice.allowed_jobs, choice.job)
            /\ choice'.weapon \in AllowedPick(choice.allowed_weapons, choice.weapon)
            /\ choice' = [choice EXCEPT !.species = choice'.species,
                                        !.job = choice'.job,
                                        !.weapon = choice'.weapon]]_vars

\* a random species was asked for with the Hunter: the request still asks
\* for it after the resolution, and the only weapon of the Kobold Hunter is
\* written into the request
C16_Witness ==
    /\ pc = "char_done"
    /\ last.fn = "weapon"
    /\ last.path = "single"
    /\ choice.species = "SP_RANDOM"
    /\ ng.species = "SP_KOBOLD"
    /\ ng.job = "JOB_HUNTER"
    /\ choice.weapon = "WPN_HUNTING_SLING"
    /\ ng.weapon = "WPN_HUNTING_SLING"

\* C16 as stated: no step of the resolution changes the species, job or
\* weapon of the request
C16_RequestKeptByResolution == [][ResolutionStep => RequestKept]_vars

\* C17: when the weapon stage finds exactly one candidate that is not
\* banned for the species and the job, it gives that weapon to the resolved
\* record and succeeds without the weapon menu, whatever weapon the request
\* and the allow-list of weapons name
C17_OnlyWeaponAssignedWithoutPrompt ==
    [][pc = "choose_weapon" /\ OnlyOneWeapon =>
          /\ ng'.weapon = _get_weapons(ng)[1].first
          /\ weapon_restriction(ng'.weapon, ng) # CC_BANNED
          /\ ng'.species = ng.species
          /\ ng'.job = ng.job
          /\ pc' = "char_done"]_vars

\* the Kobold Hunter gets the hunting sling although the allow-list of
\* weapons names the flail and the recommended weapons
C17_Witness ==
    /\ pc = "char_done"
    /\ last.fn = "weapon"
    /\ last.path = "single"
    /\ choice.allowed_weapons = <<"WPN_VIABLE", "WPN_FLAIL">>
    /\ ng.species = "SP_KOBOLD"
    /\ ng.job = "JOB_HUNTER"
    /\ ng.weapon = "WPN_HUNTING_SLING"

\* the weapon stage has nothing to choose: a Felid, or a job without a
\* choice of weapon
NoWeaponChoice == ng.species = "SP_FELID" \/ ~job_has_weapon_choice(ng.job)

\* C18: when the species is Felid or the job has no choice of weapon, the
\* weapon stage succeeds at once: the resolved record and the request are
\* left as they are, no candidate is looked at and the weapon menu is not
\* shown
C18_NoWeaponChoiceSucceedsAtOnce ==
    [][pc = "choose_weapon" /\ NoWeaponChoice =>
          /\ ng' = ng
          /\ choice' = choice
          /\ pc' = "char_done"
          /\ exit_msg' = exit_msg
          /\ last'.path = "none_needed"
          /\ last'.count = 0]_vars

\* a Felid Wizard passed the weapon stage with the flail still asked for
\* and no weapon given
C18_Witness ==
    /\ pc = "char_done"
    /\ last.fn = "weapon"
    /\ last.path = "none_needed"
    /\ ng.species = "SP_FELID"
    /\ ng.job = "JOB_WIZARD"
    /\ ng.weapon = "WPN_UNKNOWN"
    /\ choice.weapon = "WPN_FLAIL"

\* the weapon stage has just resolved the weapon for the first time, with
\* two or more candidates
FirstWeaponResolve == last.fn = "weapon" /\ last.other = "first"

\* C19: with two or more candidates, a weapon of the request that is not
\* among the candidates of the species and the job leaves the resolved
\* weapon unknown and brings up the weapon menu; a weapon of the request
\* that is among them is given to the resolved record without the menu
C19_ConcreteWeaponFixedUp ==
    FirstWeaponResolve /\ choice.weapon \notin WeaponPlaceholders =>
        IF choice.weapon \in WeaponsOf(_get_weapons(ng))
        THEN ng.weapon = choice.weapon /\ pc = "char_done"
        ELSE ng.weapon = "WPN_UNKNOWN" /\ pc = "prompt_weapon"

\* C20: the weapon menu is left in one of three ways: the game is ended, a
\* weapon is selected, or the menu is backed out of. Backing out neither
\* returns nor terminates: the loop starts again at its head with the
\* resolved species, job and weapon unknown as before the resolution, the
\* player name and the game type of both records kept, the request that was
\* tried stored as the defaults, and the species and the job of the request
\* unknown, so that species and job are resolved again
C20_WeaponBackOutRestartsLoop ==
    [][pc = "prompt_weapon" =>
          /\ pc' \in {"exit", "resolve_weapon", "loop_top"}
          /\ pc' = "loop_top" =>
                /\ ng' = ng_reset
                /\ ng'.species = "SP_UNKNOWN"
                /\ ng'.job = "JOB_UNKNOWN"
                /\ ng'.weapon = "WPN_UNKNOWN"
                /\ ng'.name = ng.name
                /\ ng'.type = ng.type
                /\ choice'.name = choice.name
                /\ choice'.type = choice.type
                /\ choice'.species = "SP_UNKNOWN"
                /\ choice'.job = "JOB_UNKNOWN"
                /\ defaults' = choice
                /\ exit_msg' = exit_msg
          /\ pc' # "loop_top" => ng' = ng /\ defaults' = defaults]_vars

\* the flail asked for with the Human Hunter brought up the weapon menu,
\* which was backed out of: the loop is at its head again, the request
\* that was tried is the default and both records are back to unknown
C20_Witness ==
    /\ pc = "loop_top"
    /\ defaults.species = "SP_HUMAN"
    /\ defaults.job = "JOB_HUNTER"
    /\ defaults.weapon = "WPN_FLAIL"
    /\ ng = ng_reset
    /\ choice = ng_reset
    /\ ng.name = "Ann"
    /\ ng.job = "JOB_UNKNOWN"

\* the process has ended: a character returned, end(1, ...), a failed
\* assertion or an exception, game_ended(game_exit::abort), end(0)
Terminated == pc \in {"done", "fatal", "abort", "exit"}

\* a step in which the user cancels: escape, or one of the keys that quit
CancelKey == last'.fn = "key" /\ last'.req \in {"escape", "quit"}

\* C21: escape at the species, job or map menu and escape or 'q' at the
\* confirmation of a random character end the process with the abort
\* signal; 'X' or Ctrl-Q at the species, job, weapon or map menu ends it
\* with end(0); after either no step is taken. Escape at the weapon menu
\* does not end the process: it backs out of the menu and the loop starts
\* again at its head
C21_CancelEndsExceptAtWeaponMenu ==
    [][/\ Terminated => FALSE
       /\ CancelKey /\ pc \in {"prompt_species", "prompt_job", "prompt_map"} =>
            /\ pc' = (IF last'.req = "escape" THEN "abort" ELSE "exit")
            /\ ng' = ng
            /\ choice' = choice
       /\ CancelKey /\ pc = "reroll" =>
            /\ pc' = "abort"
            /\ ng' = ng
            /\ choice' = choice
       /\ CancelKey /\ pc = "prompt_weapon" =>
            IF last'.req = "quit"
            THEN pc' = "exit" /\ ng' = ng /\ choice' = choice
            ELSE pc' = "loop_top" /\ ng' = ng_reset /\ defaults' = choice]_vars

\* escape at the job menu, shown for the Human after the species was
\* resolved, ended the process with the abort signal
C21_Witness ==
    /\ pc = "abort"
    /\ last = KeyLast("escape")
    /\ ng.species = "SP_HUMAN"
    /\ ng.job = "JOB_UNKNOWN"
    /\ choice.job = "JOB_UNKNOWN"

\* C21 as stated, with either way of ending the process taken as the
\* termination: a cancel at any menu or at the confirmation ends the
\* process, and no step follows it
C21_CancelAlwaysEnds ==
    [][/\ Terminated => FALSE
       /\ CancelKey => pc' \in {"abort", "exit"}]_vars

\* C22: when the species and the job are resolved and the pair is legal,
\* the confirmation is shown exactly if the request is marked fully random
\* at that moment, and it is shown at no other place; accepting goes on to
\* the weapon stage with the resolved character as it is, quitting ends
\* the process with the abort signal, rejecting starts the loop again
C22_ConfirmationIffFullyRandom ==
    [][/\ pc = "final_check" /\ pc' # "fatal" =>
            /\ pc' = (IF choice.fully_random THEN "reroll" ELSE "choose_weapon")
            /\ ng' = ng
            /\ choice' = choice
       /\ pc' = "reroll" => pc = "final_check" /\ choice.fully_random
       /\ pc' = "choose_weapon" =>
            \/ pc = "final_check" /\ ~choice.fully_random
            \/ pc = "reroll" /\ choice.fully_random
       /\ pc = "reroll" =>
            \/ pc' = "choose_weapon" /\ ng' = ng /\ choice' = choice
            \/ pc' = "abort" /\ ng' = ng /\ choice' = choice
            \/ pc' = "loop_top" /\ ng' = ng_reset /\ choice' = choice]_vars

\* a recommended character, the Kobold Wizard, is shown for confirmation
C22_Witness ==
    /\ pc = "reroll"
    /\ choice.fully_random
    /\ choice.species = "SP_VIABLE"
    /\ choice.job = "JOB_VIABLE"
    /\ ng.species = "SP_KOBOLD"
    /\ ng.job = "JOB_WIZARD"

\* C23: when the confirmation of a fully random character is shown, the
\* character is complete: the species and the job are set and, where the
\* species and the job leave a weapon to choose, the weapon stage has run
\* and the weapon is set
C23_ConfirmationOfCompleteCharacter ==
    pc = "reroll" =>
        /\ ng.species \notin SpeciesPlaceholders
        /\ ng.job \notin JobPlaceholders
        /\ ~NoWeaponChoice => ng.weapon \notin WeaponPlaceholders

\* a reroll was just rejected: the loop of _choose_char is at its head again
AfterReject == pc = "loop_top" /\ last = KeyLast("reject")

\* C24: after the rejection of a character, a request that was fully
\* random when the loop of _choose_char was entered is again the one the
\* loop was entered with: the same species, job and weapon (placeholders
\* and unknown fields included) and the same fully-random mark, whatever
\* the menus were answered before; a field drawn from an allow-list or a
\* combo at the head of the loop is left aside
C24_RequestRestoredOnReject ==
    AfterReject /\ request0.fully_random /\ Len(choice.allowed_combos) = 0 =>
        /\ Len(choice.allowed_species) = 0 => choice.species = request0.species
        /\ Len(choice.allowed_jobs) = 0 => choice.job = request0.job
        /\ Len(choice.allowed_weapons) = 0 => choice.weapon = request0.weapon
        /\ choice.fully_random = request0.fully_random

(***************************************************************************)
(* Termination.  The pipeline runs on one thread: a step that is enabled   *)
(* is taken (the program goes on, or the user presses a key at a menu      *)
(* that blocks until a key is pressed).                                    *)
(***************************************************************************)
\* requests that take the run through every step of the pipeline
LiveRequests ==
    {[newgame_def EXCEPT !.name = "Ann"],
     [newgame_def EXCEPT !.name = "Ann", !.species = "SP_RANDOM",
                         !.job = "JOB_HUNTER", !.weapon = "WPN_FLAIL"],
     [newgame_def EXCEPT !.species = "SP_UNKNOWN", !.job = "JOB_WIZARD"],
     [newgame_def EXCEPT !.name = "Ann", !.type = "GAME_TYPE_SPRINT",
                         !.species = "SP_HUMAN", !.job = "JOB_WIZARD"]}

InitLive ==
    /\ Init
    /\ choice \in LiveRequests
    /\ defaults = IF choice.species = "SP_UNKNOWN" /\ choice.name = "Ann"
                  THEN [newgame_def EXCEPT !.name = "Ann", !.species = "SP_KOBOLD",
                                           !.job = "JOB_FIGHTER",
                                           !.weapon = "WPN_FLAIL"]
                  ELSE newgame_def
    /\ HasMapStage(choice.type) => maps = <<"map_b", "map_a">> /\ sprint_map = ""

\* the steps other than the three resolution steps
DirectStep ==
    \/ ChooseGame \/ ChooseGamemodeMap \/ MapEndGame \/ MapCancel \/ MapSelect
    \/ ChooseChar \/ LoopTop \/ FinalCheck
    \/ PromptEndGame \/ PromptCancel \/ PromptBksp \/ PromptRandomChar
    \/ PromptDefaultChoice \/ PromptAbort \/ PromptViable \/ PromptRandom
    \/ PromptSelect \/ RerollQuit \/ RerollReject \/ RerollAccept
    \/ ChooseWeapon \/ WeaponEndGame \/ WeaponAbort \/ WeaponSelect
    \/ ChooseGameReturn \/ NameEntered \/ NameCancel

\* Weak fairness of every step.  ResolveFirst, ResolveSecond and
\* ResolveWeapon are each enabled exactly at their position and leave it,
\* so the weak fairness of each is that the run is again and again outside
\* its position.
SpecLive ==
    /\ InitLive
    /\ [][Next]_vars
    /\ WF_vars(DirectStep)
    /\ []<>(pc # "resolve_first")
    /\ []<>(pc # "resolve_second")
    /\ []<>(pc # "resolve_weapon")

\* a user action that asks for the choice to be made again: the field
\* cleared with backspace, both fields cleared with the abort item, a
\* rerolled character rejected, the weapon menu backed out of
ChooseAgain == PromptBksp \/ PromptAbort \/ RerollReject \/ WeaponAbort

\* the program waits for a key: a menu or the confirmation is shown
AwaitingInput ==
    pc \in {"prompt_species", "prompt_job", "prompt_weapon", "prompt_map",
            "prompt_name", "reroll"}

CharLoopAgain == pc # "choose_char" /\ pc' = "loop_top"

\* the while of lines 392-404 starts another iteration after line 403
SpeciesJobLoopAgain ==
    /\ pc = "resolve_second"
    /\ site = 403
    /\ pc' \in {"prompt_species", "resolve_first"}

\* C26: no retry is automatic: another iteration of the loop of _choose_char
\* directly follows a key of the user, the rejection at the confirmation
\* of the random character or the backing out of the weapon menu, and
\* another iteration of the while of _choose_species_job is started only
\* when a menu was answered in the iteration before it.
C26_NoAutomaticRetry ==
    [][/\ CharLoopAgain =>
            /\ last'.fn = "key"
            /\ \/ pc = "reroll" /\ last'.req = "reject"
               \/ pc = "prompt_weapon" /\ last'.req \in {"escape", "back"}
       /\ SpeciesJobLoopAgain => prompted]_vars

C26_Witness ==
    /\ pc = "prompt_species"
    /\ ~prompted
    /\ last.fn = "job"
    /\ choice.species = "SP_UNKNOWN"
    /\ choice.job = "JOB_UNKNOWN"
    /\ ng.species = "SP_UNKNOWN"
    /\ request0.species = "SP_HUMAN"

(***************************************************************************)
(* The end of the while of _choose_species_job.                            *)
(***************************************************************************)
\* C27: _choose_species_job comes to its last check (lines 406-412) only
\* with a resolved species and a resolved job that are concrete, neither
\* UNKNOWN nor RANDOM nor VIABLE, however often a menu has put both fields
\* back to UNKNOWN before.
C27_FinalCheckOnConcretePair ==
    pc = "final_check" =>
        /\ ng.species \notin SpeciesPlaceholders
        /\ ng.job \notin JobPlaceholders
        /\ choice.species # "SP_UNKNOWN"
        /\ choice.job # "JOB_UNKNOWN"

C27_Witness ==
    /\ pc = "final_check"
    /\ request0.species = "SP_HUMAN"
    /\ request0.job = "JOB_UNKNOWN"
    /\ defaults.species = "SP_UNKNOWN"
    /\ ~choice.fully_random
    /\ choice.species = "SP_KOBOLD"
    /\ choice.job = "JOB_WIZARD"
    /\ ng.species = "SP_KOBOLD"
    /\ ng.job = "JOB_WIZARD"

(***************************************************************************)
(* _choose_gamemode_map.                                                   *)
(***************************************************************************)
AtMapStage == pc \in {"choose_map", "prompt_map"}

\* C28: _choose_gamemode_map with no map for the game type ends the process
\* with the error of line 2059 as its first step, no menu shown and no map
\* drawn; with at least one map no step of the map stage ends the process
\* with an error.
C28_NoMapsIsFatalAtOnce ==
    [][AtMapStage =>
         /\ pc' = "fatal" <=> pc = "choose_map" /\ Len(maps) = 0
         /\ pc' = "fatal" =>
              /\ exit_msg' = "No maps found."
              /\ ng' = ng
              /\ choice' = choice]_vars

C28_Witness ==
    /\ pc = "fatal"
    /\ exit_msg = "No maps found."
    /\ Len(maps) = 0
    /\ choice.type = "GAME_TYPE_SPRINT"
    /\ choice.map = "map_a"
    /\ ng.map = "map_a"

\* crawl_state.sprint_map is set and the game is a sprint
SprintMapPinned == choice.type = "GAME_TYPE_SPRINT" /\ sprint_map # ""

\* C29: with no map requested, a single map is given to the request and to
\* the resolved record without the map menu, and several maps (no sprint
\* map pinned) bring up the map menu, which is entered from line 2069 only
\* and so at most once; with a map requested the menu is not shown.
C29_MapMenuOnlyForSeveralMaps ==
    [][/\ pc = "choose_map" /\ choice.map = "" /\ Len(maps) = 1 =>
            /\ pc' = "choose_char"
            /\ choice'.map = maps[1]
            /\ ng'.map = maps[1]
       /\ pc = "choose_map" /\ choice.map = "" /\ Len(maps) > 1
          /\ ~SprintMapPinned => pc' = "prompt_map" /\ choice' = choice
       /\ pc = "choose_map" /\ choice.map # "" => pc' # "prompt_map"
       /\ pc' = "prompt_map" => pc = "choose_map"
       /\ pc' = "choose_map" => pc = "choose_game"]_vars

C29_Witness ==
    /\ pc = "prompt_map"
    /\ choice.type = "GAME_TYPE_TUTORIAL"
    /\ choice.map = ""
    /\ Len(maps) = 2
    /\ sprint_map = ""

\* C30: in a sprint with no map requested and crawl_state.sprint_map set,
\* the pinned map becomes the requested and the resolved map and the map
\* menu is not shown.
C30_PinnedSprintMapReused ==
    [][pc = "choose_map" /\ SprintMapPinned /\ choice.map = ""
       /\ Len(maps) > 0 =>
            /\ pc' = "choose_char"
            /\ choice'.map = sprint_map
            /\ ng'.map = sprint_map]_vars

(***************************************************************************)
(* _resolve_gamemode_map.                                                  *)
(***************************************************************************)
\* _choose_gamemode_map has returned and _choose_char has not started
MapStageReturned == pc = "choose_char" /\ HasMapStage(choice.type)

\* C31: when the requested map is "random" or empty at line 2042, also
\* after the map menu was left with its random entry or with the space
\* key, the resolved map is a member of the maps of the game type, and
\* each of these maps can be the one drawn.
C31_RandomMapFromAllMaps ==
    /\ MapStageReturned /\ choice.map \in {"", "random"} =>
            ng.map \in Range(maps)
    /\ pc = "choose_map" /\ choice.map = "random" =>
            \A i \in 1..Len(maps) :
                ENABLED (ChooseGamemodeMap /\ choice'.map = "random"
                         /\ ng'.map = maps[i])
    /\ pc = "prompt_map" =>
            \A i \in 1..Len(maps) :
                ENABLED (MapSelect /\ choice'.map = "" /\ ng'.map = maps[i])

C31_Witness ==
    /\ MapStageReturned
    /\ choice.type = "GAME_TYPE_SPRINT"
    /\ choice.map = ""
    /\ maps = <<"map_b", "map_a">>
    /\ ng.map = "map_b"

(***************************************************************************)
(* The order of the stages of choose_game and of _choose_char.             *)
(***************************************************************************)
AtWeaponStage == pc \in {"choose_weapon", "resolve_weapon", "prompt_weapon"}

\* C32: _choose_gamemode_map runs only for a sprint or a tutorial and only
\* between the head of choose_game and _choose_char; _choose_weapon starts
\* only from a returned _choose_species_job, with the resolved species and
\* job concrete, and while it runs neither of the two is changed (its
\* false return ends it, lines 570-580).
C32_StageOrder ==
    [][/\ AtMapStage' => /\ HasMapStage(choice.type)
                         /\ pc \in {"choose_game", "choose_map"}
       /\ pc = "choose_game" =>
            pc' = (IF HasMapStage(choice.type) THEN "choose_map"
                   ELSE "choose_char")
       /\ pc' = "choose_char" => pc = "choose_game" \/ AtMapStage
       /\ AtWeaponStage' =>
            /\ ng'.species \notin SpeciesPlaceholders
            /\ ng'.job \notin JobPlaceholders
       /\ pc' = "choose_weapon" => pc \in {"final_check", "reroll"}
       /\ AtWeaponStage /\ pc' # "loop_top" =>
            /\ ng'.species = ng.species
            /\ ng'.job = ng.job]_vars

C32_Witness ==
    /\ pc = "choose_weapon"
    /\ choice.type = "GAME_TYPE_SPRINT"
    /\ Len(maps) = 2
    /\ ng.map = "map_a"
    /\ ng.species = "SP_HUMAN"
    /\ ng.job = "JOB_WIZARD"
    /\ ng.weapon = "WPN_UNKNOWN"

(***************************************************************************)
(* _get_weapons.                                                           *)
(***************************************************************************)
\* the weapons offered to a species and a job before the banned are dropped
StartingWeapons(n) ==
    IF job_gets_ranged_weapons(n.job)
    THEN <<"WPN_THROWN", "WPN_HUNTING_SLING", "WPN_SHORTBOW", "WPN_HAND_CROSSBOW">>
    ELSE IF job_gets_good_weapons(n.job)
    THEN <<"WPN_RAPIER", "WPN_FLAIL", "WPN_WAR_AXE",
           IF n.job = "JOB_FIGHTER" /\ species_is_small(n.species)
           THEN "WPN_SPEAR" ELSE "WPN_TRIDENT",
           "WPN_LONG_SWORD", "WPN_QUARTERSTAFF", "WPN_UNARMED">>
    ELSE <<"WPN_SHORT_SWORD", "WPN_MACE", "WPN_HAND_AXE", "WPN_SPEAR",
           "WPN_FALCHION", "WPN_QUARTERSTAFF", "WPN_UNARMED">>

WeaponAllowed(n, wp) == weapon_restriction(wp, n) # CC_BANNED

JobSelected ==
    /\ pc = "prompt_job"
    /\ pc' = "resolve_first"
    /\ ng' = ng
    /\ choice'.job \notin JobPlaceholders
    /\ choice' = [choice EXCEPT !.job = choice'.job]

\* a step of the species menu that puts a concrete species into the request
SpeciesSelected ==
    /\ pc = "prompt_species"
    /\ pc' = "resolve_first"
    /\ ng' = ng
    /\ choice'.species \notin SpeciesPlaceholders
    /\ choice' = [choice EXCEPT !.species = choice'.species]

\* C34: the job menu takes a concrete job only when the resolved species
\* is UNKNOWN or the job is not banned with it, and the species menu takes
\* a concrete species only when the resolved job is UNKNOWN or the species
\* is not banned with it; a selection never forms a banned pair with the
\* field resolved before it.
C34_SelectionNeverBanned ==
    [][/\ JobSelected =>
            \/ ng.species = "SP_UNKNOWN"
            \/ job_allowed(ng.species, choice'.job) # CC_BANNED
       /\ SpeciesSelected =>
            \/ ng.job = "JOB_UNKNOWN"
            \/ species_allowed(ng.job, choice'.species) # CC_BANNED]_vars

C34_Witness ==
    /\ pc = "resolve_first"
    /\ site = 403
    /\ last = NoLast
    /\ prompted
    /\ ng.species = "SP_FELID"
    /\ ng.job = "JOB_UNKNOWN"
    /\ choice.species = "SP_FELID"
    /\ choice.job = "JOB_WIZARD"

(***************************************************************************)
(* The allow-lists and the character returned by _choose_char.             *)
(***************************************************************************)
\* C35: with an allow-list of concrete species in the request the loop of
\* _choose_char was entered with, the character _choose_char returns has a
\* species of that list, whatever the menus were answered; likewise for
\* an allow-list of concrete jobs.
C35_ReturnedWithinAllowLists ==
    pc = "char_done" /\ Len(request0.allowed_combos) = 0 =>
        /\ Len(request0.allowed_species) # 0
              /\ Range(request0.allowed_species) \cap SpeciesPlaceholders = {}
           => ng.species \in Range(request0.allowed_species)
        /\ Len(request0.allowed_jobs) # 0
              /\ Range(request0.allowed_jobs) \cap JobPlaceholders = {}
           => ng.job \in Range(request0.allowed_jobs)

(***************************************************************************)
(* The resolved record at the head of the loop of _choose_char.            *)
(***************************************************************************)
\* C36: at the head of every iteration of the loop of _choose_char the
\* resolved record equals ng_reset, the copy made at line 455: nothing an
\* earlier iteration resolved is left after a rejection at the
\* confirmation or after the weapon menu was backed out of.
C36_ResolvedRecordResetAtLoopHead ==
    pc = "loop_top" => ng = ng_reset

C36_Witness ==
    /\ pc = "loop_top"
    /\ last = KeyLast("back")
    /\ ng = ng_reset
    /\ defaults.species = "SP_HUMAN"
    /\ defaults.job = "JOB_FIGHTER"

(***************************************************************************)
(* The request and the resolved record inside _choose_species_job.         *)
(***************************************************************************)
\* a menu of _choose_species_job returns with done set
MenuAnswered == AtChoicePrompt /\ pc' = "resolve_first"

\* C37: inside _choose_species_job the request and the resolved record
\* agree: the species menu opens only with the resolved species UNKNOWN and
\* the job menu only with the resolved job UNKNOWN; a menu answer that
\* changes a requested field whose resolved value is set clears that
\* resolved value; and at the return each requested field that is
\* concrete equals the resolved field.
C37_RequestAndResolvedInLockstep ==
    [][/\ pc' = "prompt_species" => ng'.species = "SP_UNKNOWN"
       /\ pc' = "prompt_job" => ng'.job = "JOB_UNKNOWN"
       /\ MenuAnswered /\ choice'.species # choice.species
          /\ ng.species # "SP_UNKNOWN" => ng'.species = "SP_UNKNOWN"
       /\ MenuAnswered /\ choice'.job # choice.job
          /\ ng.job # "JOB_UNKNOWN" => ng'.job = "JOB_UNKNOWN"
       /\ pc' = "final_check" =>
            /\ choice'.species \notin SpeciesPlaceholders
                  => ng'.species = choice'.species
            /\ choice'.job \notin JobPlaceholders => ng'.job = choice'.job]_vars

C37_Witness ==
    /\ pc = "resolve_first"
    /\ site = 403
    /\ prompted
    /\ last = NoLast
    /\ request0.species = "SP_RANDOM"
    /\ request0.job = "JOB_UNKNOWN"
    /\ choice.species = "SP_KOBOLD"
    /\ choice.job = "JOB_FIGHTER"
    /\ ng.species = "SP_UNKNOWN"
    /\ ng.job = "JOB_UNKNOWN"
    /\ defaults.species = "SP_KOBOLD"

(***************************************************************************)
(* The request after the weapon menu was backed out of.                    *)
(***************************************************************************)
\* ng_reset, the copy of line 455, holds no species, job or weapon
SnapshotEmpty ==
    /\ ng_reset.species = "SP_UNKNOWN"
    /\ ng_reset.job = "JOB_UNKNOWN"
    /\ ng_reset.weapon = "WPN_UNKNOWN"

\* the iteration that follows lines 577-579, before any menu of it
AfterBackOut ==
    /\ request0 = ng_reset
    /\ choice = ng_reset
    /\ pc \in {"loop_top", "resolve_first", "resolve_second"}
    /\ pc # "loop_top" => site = 390

\* C38: backing out of the weapon menu replaces the request by ng_reset;
\* with no character in ng_reset the requested species, job and weapon are
\* UNKNOWN in the next iteration, the fully-random flag and the allow-lists
\* of the request are gone, and the iteration goes without a menu, a draw
\* or an error to the species menu.
C38_BackOutEmptiesRequest ==
    [][/\ pc = "prompt_weapon" /\ pc' = "loop_top" =>
            /\ choice' = ng_reset
            /\ defaults' = choice
            /\ SnapshotEmpty =>
                  /\ choice'.species = "SP_UNKNOWN"
                  /\ choice'.job = "JOB_UNKNOWN"
                  /\ choice'.weapon = "WPN_UNKNOWN"
                  /\ ~choice'.fully_random
                  /\ Len(choice'.allowed_species) = 0
                  /\ Len(choice'.allowed_jobs) = 0
                  /\ Len(choice'.allowed_weapons) = 0
                  /\ Len(choice'.allowed_combos) = 0
       /\ AfterBackOut /\ SnapshotEmpty =>
            /\ choice' = choice
            /\ ng' = ng
            /\ pc' = (CASE pc = "loop_top" -> "resolve_first"
                        [] pc = "resolve_first" -> "resolve_second"
                        [] pc = "resolve_second" -> "prompt_species")]_vars

C38_Witness ==
    /\ pc = "prompt_species"
    /\ ~prompted
    /\ request0 = ng_reset
    /\ choice = ng_reset
    /\ defaults.fully_random
    /\ Len(defaults.allowed_species) = 2
    /\ defaults.species = "SP_KOBOLD"
    /\ defaults.job = "JOB_FIGHTER"

(***************************************************************************)
(* The weapon selected at the weapon menu.                                 *)
(***************************************************************************)
\* _choose_weapon has returned through lines 1795-1800, after the menu
WeaponMenuReturned ==
    pc = "char_done" /\ last.fn = "weapon" /\ last.other = "prompted"

\* C39: a concrete weapon selected at the weapon menu is the weapon of the
\* resolved record when _choose_weapon returns.
C39_SelectedWeaponAssigned ==
    WeaponMenuReturned /\ choice.weapon \notin WeaponPlaceholders =>
        ng.weapon = choice.weapon

\* C40: whenever _choose_gamemode_map returns, the resolved map is one of
\* the maps of the game type, also when the request named a map or the
\* previous choice was taken at the map menu.
C40_ResolvedMapIsCandidate ==
    MapStageReturned => ng.map \in Range(maps)

====
